---------------------------- MODULE Spec2Model ----------------------------
(***************************************************************************)
(* Model of lifely's LLM enrichment / classification pipeline              *)
(* (src/src/lifely/llm_enrich.py, src/src/lifely/places.py).               *)
(*                                                                         *)
(* The specifications of this module share its variables and are told     *)
(* apart by `mode`:                                                        *)
(*   Spec          one invocation sequence of enrich_all_events or of      *)
(*                 classify_solo_events (a first run from an empty cache   *)
(*                 directory and a second run over the same events);       *)
(*   SpecBatch     one invocation of _call_openai_parallel by a pipeline:  *)
(*                 the batches, the semaphore, the retry loop of           *)
(*                 _call_openai_batch and the merge that follows;          *)
(*   SpecBatchFair SpecBatch with the progress of calls, sleeps and tasks; *)
(*   SpecPartition the partition of the prompt items into batches;         *)
(*   SpecAgg       the aggregations and the merge suggestions;             *)
(*   SpecActivity  the aggregations over a longer list of activities;      *)
(*   SpecGather    the two pipelines run by enrich_and_classify_all.       *)
(*                                                                         *)
(* Python strings that the code inspects (locations, summaries) are        *)
(* sequences of one-character strings, so that strip(), lower(),           *)
(* startswith(), split() and slicing are computed.  Values that are only   *)
(* copied (venue names, coordinates) are TLA+ strings.                     *)
(***************************************************************************)
EXTENDS Integers, Sequences, FiniteSets, TLC

(***************************************************************************)
(* Bounds of the model.                                                    *)
(***************************************************************************)
MaxEvents == 2
NumBatches == 2
MaxItems == 4
MaxBatchSize == 5
MaxActivities == 7

(***************************************************************************)
(* Program constants.                                                      *)
(***************************************************************************)
BATCH_SIZE == 30
MAX_CONCURRENT_BATCHES == 2
max_retries == 5
BackoffBase == 5
MaxLocationLen == 160
MaxTextLen == 180

(***************************************************************************)
(* Python's None for copied values, and for the inspected strings.         *)
(***************************************************************************)
None == "<None>"
NoneStr == <<"<None>">>

\* The two outcomes of a run that has raised nothing, as records like the errors
Running == [state |-> "running"]
Returned == [state |-> "returned"]

Min(a, b) == IF a < b THEN a ELSE b
Max(S) == CHOOSE x \in S : \A y \in S : y <= x

(***************************************************************************)
(* String primitives over sequences of characters.                         *)
(***************************************************************************)
IsSpace(c) == c \in {" "}

RECURSIVE LStrip(_)
LStrip(s) == IF s # <<>> /\ IsSpace(Head(s)) THEN LStrip(Tail(s)) ELSE s

RECURSIVE RStrip(_)
RStrip(s) ==
    IF s # <<>> /\ IsSpace(s[Len(s)]) THEN RStrip(SubSeq(s, 1, Len(s) - 1)) ELSE s

\* str.strip()
Strip(s) == RStrip(LStrip(s))

UpperToLower ==
    [c \in {"C", "D", "G", "M", "S", "Y", "Z"} |->
        CASE c = "C" -> "c" [] c = "D" -> "d" [] c = "G" -> "g" [] c = "M" -> "m"
          [] c = "S" -> "s" [] c = "Y" -> "y" [] c = "Z" -> "z"]

\* str.lower()
Lower(s) ==
    [i \in 1..Len(s) |-> IF s[i] \in DOMAIN UpperToLower THEN UpperToLower[s[i]] ELSE s[i]]

\* str.startswith(p)
StartsWith(s, p) == Len(s) >= Len(p) /\ SubSeq(s, 1, Len(p)) = p

\* p in s
Contains(s, p) ==
    \E i \in 0..(Len(s) - Len(p)) : SubSeq(s, i + 1, i + Len(p)) = p

\* s[:n]
Take(s, n) == SubSeq(s, 1, Min(n, Len(s)))

\* index of the first character of s that is in the set cs, 0 when there is none
FirstIndexOf(s, cs) ==
    IF \E i \in 1..Len(s) : s[i] \in cs
    THEN CHOOSE i \in 1..Len(s) : s[i] \in cs /\ \A j \in 1..(i - 1) : s[j] \notin cs
    ELSE 0

\* s.split(c, 1)[0]
SplitFirst(s, c) ==
    LET i == FirstIndexOf(s, {c}) IN IF i = 0 THEN s ELSE SubSeq(s, 1, i - 1)

\* Python truthiness of an optional string
TruthyStr(s) == s # NoneStr /\ s # <<>>
\* Python truthiness of an optional copied value
Truthy(v) == v # None /\ v # ""
\* a or b
Or(a, b) == IF Truthy(a) THEN a ELSE b

\* Op applied to the value of v, with v evaluated once
With(v, Op(_)) == CHOOSE r \in {Op(x) : x \in {v}} : TRUE

(***************************************************************************)
(* Literals the code compares against.                                     *)
(***************************************************************************)
KW_http == <<"h","t","t","p">>
\* ("http://", "https://")
UrlSchemes ==
    {<<"h","t","t","p",":","/","/">>, <<"h","t","t","p","s",":","/","/">>}
\* ("zoom", "google meet", "meet link", "see attached")
NonPhysicalKeywords ==
    {<<"z","o","o","m">>,
     <<"g","o","o","g","l","e"," ","m","e","e","t">>,
     <<"m","e","e","t"," ","l","i","n","k">>,
     <<"s","e","e"," ","a","t","t","a","c","h","e","d">>}
\* ("maps.google.com", "google.com/maps", "goo.gl/maps", "maps.app.goo.gl")
MapsHostKeys ==
    {<<"m","a","p","s",".","g","o","o","g","l","e",".","c","o","m">>,
     <<"g","o","o","g","l","e",".","c","o","m","/","m","a","p","s">>,
     <<"g","o","o",".","g","l","/","m","a","p","s">>,
     <<"m","a","p","s",".","a","p","p",".","g","o","o",".","g","l">>}

(***************************************************************************)
(* Inputs: the raw location strings and summaries of the events.           *)
(***************************************************************************)

\* location_raw: missing, blank, a venue name (bare and padded), two Maps
\* URLs, a non-physical phrase and a text one character over MaxLocationLen
LocationUniverse ==
    {NoneStr,
     <<" "," ">>,
     <<"C","a","f","e">>,
     <<" ","C","a","f","e"," ">>,
     <<"h","t","t","p",":","/","/","m","a","p","s",".","g","o","o","g","l","e",".","c","o","m","/","?","q","=","1">>,
     <<"h","t","t","p",":","/","/","m","a","p","s",".","g","o","o","g","l","e",".","c","o","m","/">>,
     <<"Z","o","o","m"," ","c","a","l","l">>,
     [i \in 1..(MaxLocationLen + 1) |-> "a"]}

SumGym == <<"G","y","m">>

\* summary: missing, empty, blank, and two titles (one also padded and upper-cased)
SummaryUniverse ==
    {NoneStr, <<>>, <<" "," ">>, SumGym, <<" ","G","Y","M"," ">>, <<"Y","o","g","a">>}

\* Event ids are unique (models.py: "Unique event ID from Google Calendar").
IdTable == <<"e1", "e2", "e3", "e4", "e5", "e6", "e7", "e8", "e9">>
EventIds == {IdTable[i] : i \in 1..MaxEvents}

(***************************************************************************)
(* Dictionaries are functions; d[k] = v is Put, d.get(k) is guarded by Has.*)
(***************************************************************************)
EmptyDict == [k \in {} |-> None]
Has(d, k) == k \in DOMAIN d
Put(d, k, v) == [x \in (DOMAIN d) \cup {k} |-> IF x = k THEN v ELSE d[x]]

(***************************************************************************)
(* llm_enrich.py helpers.                                                  *)
(***************************************************************************)
\* _shorten_text(text, max_len=180)
shorten_text(text) ==
    IF ~TruthyStr(text) THEN <<>> ELSE Take(Strip(text), MaxTextLen)

\* _shorten_location(location, max_len=160)
shorten_location(location) ==
    IF ~TruthyStr(location) THEN <<>>
    ELSE LET trimmed == Strip(location)
             cut == IF StartsWith(trimmed, KW_http) THEN SplitFirst(trimmed, "?") ELSE trimmed
         IN  Take(cut, MaxLocationLen)

\* _cache_from_enrichment
cache_from_enrichment(e) ==
    [venue_name |-> e.venue_name, neighborhood |-> e.neighborhood, city |-> e.city,
     cuisine |-> e.cuisine, latitude |-> e.latitude, longitude |-> e.longitude]

\* _location_enrichment_from_cache; a missing key reads as None (dict.get)
DictGet(d, k) == IF k \in DOMAIN d THEN d[k] ELSE None
location_enrichment_from_cache(event_id, cached) ==
    [event_id |-> event_id,
     venue_name |-> DictGet(cached, "venue_name"),
     neighborhood |-> DictGet(cached, "neighborhood"),
     city |-> DictGet(cached, "city"),
     cuisine |-> DictGet(cached, "cuisine"),
     latitude |-> DictGet(cached, "latitude"),
     longitude |-> DictGet(cached, "longitude")]

\* `if cached:`, mutated: no record counts as a cache hit
DictTruthy_Never(d, k) == FALSE
\* `if cached:` on a dict: true iff the dict exists and is not empty
DictTruthy(d, k) == Has(d, k) /\ DOMAIN d[k] # {}

(***************************************************************************)
(* places.py                                                               *)
(***************************************************************************)
SchemeChars ==
    {"a","b","c","d","e","f","g","h","i","j","k","l","m","n","o","p","q","r","s","t",
     "u","v","w","x","y","z","A","C","G","M","Y","Z","0","1","2","+","-","."}
Letters == SchemeChars \ {"0","1","2","+","-","."}

\* urlparse(location).netloc: the text between "scheme://" (or a leading "//")
\* and the next "/", "?" or "#".
Netloc(location) ==
    LET colon == FirstIndexOf(location, {":"})
        hasScheme == /\ colon > 1
                     /\ location[1] \in Letters
                     /\ \A j \in 1..(colon - 1) : location[j] \in SchemeChars
        rest == IF hasScheme THEN SubSeq(location, colon + 1, Len(location)) ELSE location
    IN  IF StartsWith(rest, <<"/", "/">>)
        THEN LET after == SubSeq(rest, 3, Len(rest))
                 stop == FirstIndexOf(after, {"/", "?", "#"})
             IN  IF stop = 0 THEN after ELSE SubSeq(after, 1, stop - 1)
        ELSE <<>>

looks_like_maps_url(location) ==
    LET host == Lower(Netloc(location))
    IN  \E key \in MapsHostKeys : Contains(host, key)


(***************************************************************************)
(* What the external services may answer.                                  *)
(***************************************************************************)
\* Google Places: nothing found (or an HTTP error, which _http_post_json turns
\* into {}), or a place with its address components and location.
GeoFail == [found |-> FALSE, venue_name |-> None, neighborhood |-> None, city |-> None,
            cuisine |-> None, latitude |-> None, longitude |-> None]
GeoFull == [found |-> TRUE, venue_name |-> "Geo Venue", neighborhood |-> "Geo Hood",
            city |-> "Geo City", cuisine |-> "Italian", latitude |-> "40.7", longitude |-> "-74.0"]
GeoOutcomes == {GeoFail, GeoFull}

\* The LLM's answer for the prompt item at position j: a venue that is no
\* restaurant (cuisine null), without coordinates (the prompt asks for none).
VenueTable == <<"Venue 1", "Venue 2", "Venue 3", "Venue 4", "Venue 5", "Venue 6", "Venue 7",
               "Venue 8", "Venue 9">>
LLMResult(id, j) ==
    [event_id |-> id, venue_name |-> VenueTable[j], neighborhood |-> "SoHo",
     city |-> "Manhattan", cuisine |-> None, latitude |-> None, longitude |-> None]
\* A result whose id was not taken from the prompt items.
StrayIds == EventIds \cup {"zz"}
LLMStray(id) ==
    [event_id |-> id, venue_name |-> "Stray", neighborhood |-> None,
     city |-> None, cuisine |-> None, latitude |-> None, longitude |-> None]

\* The lists _call_openai_parallel may return for the prompt items `items`: per
\* item no result or one result, in item order; or a result per item and then
\* one stray result.
RECURSIVE ItemResults(_, _)
ItemResults(items, j) ==
    IF j > Len(items) THEN {<<>>}
    ELSE LET rest == ItemResults(items, j + 1)
         IN  rest \cup {<<LLMResult(items[j].event_id, j)>> \o s : s \in rest}
LocationResultLists(items) ==
    LET all == [j \in 1..Len(items) |-> LLMResult(items[j].event_id, j)]
    IN  ItemResults(items, 1) \cup {all \o <<LLMStray(id)>> : id \in StrayIds}

(***************************************************************************)
(* State.                                                                  *)
(***************************************************************************)
VARIABLES
    mode,                  \* "enrich" | "classify" | "batch": what is invoked
    events,                \* the input list of NormalizedEvent
    api_key,               \* OPENAI_API_KEY is set
    maps_api_key,          \* GOOGLE_MAPS_API_KEY is set
    disk_llm_cache,        \* llm_cache.json
    disk_places_cache,     \* places_cache.json
    run,                   \* 1: first run, 2: second run over the same events
    pc,                    \* position in enrich_all_events
    idx,                   \* loop index of `for e in events`
    llm_cache,             \* enrich_all_events' local llm_cache
    places_cache,
    enrichment_lookup,
    seen_locations,
    unique_events,
    event_location_lookup,
    geocode_targets,
    geo_todo,              \* targets the second pass has not visited yet
    enrichments,           \* the list _call_openai_parallel returned
    mi,                    \* loop index of `for e in enrichments`
    loaded_cache,          \* history: the llm cache as loaded by this run
    llm_calls,             \* history: resolver requests issued by this run
    geo_calls,             \* history: Places requests issued by this run
    first_lookup,          \* history: the lookup the first run returned
    outcome,               \* Running | Returned | error raised
    \* classify_solo_events
    summary_to_events,     \* ordered dict: sequence of [key, events]
    classification_by_id,
    summary_for_event,
    event_meta_by_id,
    prompt_event_by_summary,
    events_for_classification,
    classifications,       \* the list _call_openai_parallel returned
    \* _call_openai_parallel / _call_openai_batch
    parse_fn,              \* "location" | "classification": the parse_fn passed in
    batch_pc,              \* per batch: waiting | calling | sleeping | returned | raised |
                           \* cancelled
    attempt,               \* per batch: the loop variable of `for attempt in range(...)`
    last_error,            \* per batch: last_error
    sleeps,                \* per batch: history, the arguments of asyncio.sleep
    calls,                 \* per batch: history, number of client.responses.create calls
    malformed,             \* per batch: history, a response was not well formed
    batch_result,          \* per batch: what _call_openai_batch returned or raised
    ceiling,               \* MAX_CONCURRENT_BATCHES as configured (LIFELY_LLM_MAX_CONCURRENCY)
    semaphore,             \* free slots of asyncio.Semaphore(MAX_CONCURRENT_BATCHES)
    parallel,              \* _call_openai_parallel and its caller: gathering | returned | raised
    wrapper,               \* how the pipeline was started: "await" | "asyncio.run"
    batch_size,            \* BATCH_SIZE as configured (LIFELY_LLM_BATCH_SIZE)
    batches,               \* the list `batches` of _call_openai_parallel
    completed,             \* history: the batches in the order in which they finished
    \* enrich_and_classify_all: the two pipelines as tasks of one asyncio.gather.
    \* The locals of enrich_all_events are the variables above; classify_solo_events
    \* has its own llm_cache.
    task_pc,               \* per task: "ready" | "awaiting" | "done"
    classify_cache,        \* llm_cache of classify_solo_events
    gathered,              \* what enrich_and_classify_all returned
    \* _aggregate_inferred_friends, _aggregate_activity_stats, suggest_merges
    friends,               \* list of InferredFriend
    activity_stats,        \* dict category -> ActivityCategoryStats
    email_friends,         \* list of FriendStats
    suggestions            \* list of MergeSuggestion

enrichVars ==
    <<pc, idx, llm_cache, places_cache, enrichment_lookup, seen_locations, unique_events,
      event_location_lookup, geocode_targets, geo_todo, enrichments, mi, loaded_cache,
      llm_calls, geo_calls, outcome>>
classifyVars ==
    <<summary_to_events, classification_by_id, summary_for_event, event_meta_by_id,
      prompt_event_by_summary, events_for_classification, classifications>>
batchVars ==
    <<parse_fn, batch_pc, attempt, last_error, sleeps, calls, malformed, batch_result,
      ceiling, semaphore, parallel, wrapper, batch_size, batches, completed>>
gatherVars == <<task_pc, classify_cache, gathered>>
aggVars == <<friends, activity_stats, email_friends, suggestions>>
inputVars == <<mode, events, api_key, maps_api_key>>
\* the pipeline's variables other than pc and outcome
pipelineRest ==
    <<mode, events, api_key, maps_api_key, disk_llm_cache, disk_places_cache, run, idx,
      llm_cache, places_cache, enrichment_lookup, seen_locations, unique_events,
      event_location_lookup, geocode_targets, geo_todo, enrichments, mi, loaded_cache,
      llm_calls, geo_calls, first_lookup, summary_to_events, classification_by_id,
      summary_for_event, event_meta_by_id, prompt_event_by_summary,
      events_for_classification, classifications, task_pc, classify_cache, gathered,
      friends, activity_stats, email_friends, suggestions>>
diskVars == <<disk_llm_cache, disk_places_cache>>


(***************************************************************************)
(* Cache files.                                                            *)
(***************************************************************************)
EmptyLLMCache ==
    [locations_by_location |-> EmptyDict, classification_by_summary |-> EmptyDict,
     narrative_by_year |-> EmptyDict, insights_by_year |-> EmptyDict,
     experiments_by_year |-> EmptyDict]
\* A file is absent, holds text that json.load rejects ("malformed"), or holds
\* what the program saved ("ok").
AbsentFile == [state |-> "absent", data |-> EmptyLLMCache]
MalformedFile == [state |-> "malformed", data |-> EmptyLLMCache]
AbsentPlacesFile == [state |-> "absent", data |-> EmptyDict]
MalformedPlacesFile == [state |-> "malformed", data |-> EmptyDict]

\* _load_llm_cache, mutated: only the two namespaces of the pipelines are set up
load_llm_cache_TwoNamespaces(file) ==
    [locations_by_location |-> EmptyDict, classification_by_summary |-> EmptyDict]
\* _load_llm_cache: `if not path.exists()` and `except Exception` return the
\* empty cache; the setdefault calls add nothing to a file the program saved
load_llm_cache(file) == IF file.state = "ok" THEN file.data ELSE EmptyLLMCache
\* load_places_cache
load_places_cache(file) == IF file.state = "ok" THEN file.data ELSE EmptyDict
\* _save_llm_cache / save_places_cache
save_cache(cache) == [state |-> "ok", data |-> cache]

(***************************************************************************)
(* resolve_place_from_location_string(location, api_key, cache), with      *)
(* `ext` the answer of the Places API should it be asked.                  *)
(* Returns whether a place was resolved, the LocationEnrichment, the       *)
(* places cache afterwards and whether the API was called.                 *)
(***************************************************************************)
NoEnrichment ==
    [event_id |-> "", venue_name |-> None, neighborhood |-> None, city |-> None,
     cuisine |-> None, latitude |-> None, longitude |-> None]

\* lines 79-81, mutated: a search that finds nothing is remembered as a record
resolve_place_from_location_string_CachesMiss(location, key_set, cache, ext) ==
    IF ~key_set \/ location = <<>>
    THEN [resolved |-> FALSE, value |-> NoEnrichment, cache |-> cache, called |-> FALSE]
    ELSE IF Has(cache, location)
    THEN [resolved |-> TRUE,
          value |-> location_enrichment_from_cache("", cache[location]),
          cache |-> cache, called |-> FALSE]
    ELSE IF ~ext.found
    THEN [resolved |-> FALSE, value |-> NoEnrichment,
          cache |-> Put(cache, location, EmptyDict), called |-> TRUE]
    ELSE [resolved |-> TRUE,
          value |-> [event_id |-> "", venue_name |-> ext.venue_name,
                     neighborhood |-> ext.neighborhood, city |-> ext.city,
                     cuisine |-> ext.cuisine, latitude |-> ext.latitude,
                     longitude |-> ext.longitude],
          cache |-> Put(cache, location,
                        [venue_name |-> ext.venue_name, neighborhood |-> ext.neighborhood,
                         city |-> ext.city, cuisine |-> ext.cuisine,
                         place_id |-> "place-id", address |-> "address",
                         latitude |-> ext.latitude, longitude |-> ext.longitude]),
          called |-> TRUE]

resolve_place_from_location_string(location, key_set, cache, ext) ==
    IF ~key_set \/ location = <<>>
    THEN [resolved |-> FALSE, value |-> NoEnrichment, cache |-> cache, called |-> FALSE]
    ELSE IF Has(cache, location)
    THEN [resolved |-> TRUE,
          value |-> location_enrichment_from_cache("", cache[location]),
          cache |-> cache, called |-> FALSE]
    ELSE IF ~ext.found
    THEN [resolved |-> FALSE, value |-> NoEnrichment, cache |-> cache, called |-> TRUE]
    ELSE [resolved |-> TRUE,
          value |-> [event_id |-> "", venue_name |-> ext.venue_name,
                     neighborhood |-> ext.neighborhood, city |-> ext.city,
                     cuisine |-> ext.cuisine, latitude |-> ext.latitude,
                     longitude |-> ext.longitude],
          cache |-> Put(cache, location,
                        [venue_name |-> ext.venue_name, neighborhood |-> ext.neighborhood,
                         city |-> ext.city, cuisine |-> ext.cuisine,
                         place_id |-> "place-id", address |-> "address",
                         latitude |-> ext.latitude, longitude |-> ext.longitude]),
          called |-> TRUE]

(***************************************************************************)
(* enrich_all_events                                                       *)
(***************************************************************************)
location_cache == llm_cache.locations_by_location
WithLocations(cache, locs) == [cache EXCEPT !.locations_by_location = locs]

\* line 596, mutated: the slice that is shorter than the batch size is dropped
make_batches_DropsRemainder(evs, size) ==
    LET starts == {i \in 0..(Len(evs) - 1) : i % size = 0 /\ i + size <= Len(evs)}
    IN  [k \in 1..Cardinality(starts) |->
            SubSeq(evs, (k - 1) * size + 1, Min((k - 1) * size + size, Len(evs)))]
\* line 596: [events[i : i + BATCH_SIZE] for i in range(0, len(events), BATCH_SIZE)];
\* the k-th value of the range is (k - 1) * size, and a slice ends at the end
\* of the list when i + size lies beyond it
make_batches(evs, size) ==
    LET starts == {i \in 0..(Len(evs) - 1) : i % size = 0}
    IN  [k \in 1..Cardinality(starts) |->
            SubSeq(evs, (k - 1) * size + 1, Min((k - 1) * size + size, Len(evs)))]

\* number of batches _call_openai_parallel builds for n prompt items
BatchCount(n) == (n + BATCH_SIZE - 1) \div BATCH_SIZE

\* lines 140-142 and 298-300, mutated: the check is skipped
CredentialMissing_Never(key) == FALSE
\* lines 140-142 and 298-300: `if not api_key` after the environment fallback
CredentialMissing(key) == ~key

\* lines 140-156: credential check, cache load, empty working state
EnrichStart ==
    /\ mode = "enrich"
    /\ pc = "start"
    /\ IF CredentialMissing(api_key)
       THEN /\ pc' = "raised"
            /\ outcome' = [error |-> "ValueError", text |-> "OPENAI_API_KEY not set"]
            /\ UNCHANGED <<llm_cache, places_cache, loaded_cache>>
       ELSE /\ pc' = "scan"
            /\ llm_cache' = load_llm_cache(disk_llm_cache)
            /\ places_cache' = load_places_cache(disk_places_cache)
            /\ loaded_cache' = load_llm_cache(disk_llm_cache)
            /\ UNCHANGED outcome
    /\ UNCHANGED <<idx, enrichment_lookup, seen_locations, unique_events,
                   event_location_lookup, geocode_targets, geo_todo, enrichments, mi,
                   llm_calls, geo_calls, first_lookup, run>>
    /\ UNCHANGED <<inputVars, diskVars, classifyVars, batchVars, gatherVars, aggVars>>

\* line 190, mutated: every event of a location is queued
FirstTimeSeen_Always(seen, loc) == TRUE
\* line 190, mutated: no event is queued
FirstTimeSeen_Never(seen, loc) == FALSE
\* line 190: `if len(seen_locations[loc]) == 1`
FirstTimeSeen(seen, loc) == Len(seen[loc]) = 1

\* The prompt item of lines 191-197
PromptItem(e, loc) ==
    [event_id |-> e.id, summary |-> shorten_text(e.summary), location |-> shorten_location(loc)]

\* One iteration of `for e in events` (lines 158-197); geo is the Places answer.
ScanEvent(geo) ==
    /\ mode = "enrich"
    /\ pc = "scan"
    /\ idx <= Len(events)
    /\ idx' = idx + 1
    /\ LET e == events[idx]
           loc == Strip(e.location_raw)
       IN  IF ~TruthyStr(e.location_raw) \/ loc = <<>>
           THEN UNCHANGED <<llm_cache, places_cache, enrichment_lookup, seen_locations,
                            unique_events, event_location_lookup, geocode_targets, geo_calls>>
           ELSE
             LET seen == Put(seen_locations, loc,
                             (IF Has(seen_locations, loc) THEN seen_locations[loc] ELSE <<>>)
                                \o <<e.id>>)
                 tryPlaces == maps_api_key /\ looks_like_maps_url(loc)
                 res == resolve_place_from_location_string(loc, maps_api_key, places_cache, geo)
             IN
             /\ seen_locations' = seen
             /\ event_location_lookup' = Put(event_location_lookup, e.id, loc)
             /\ IF DictTruthy(location_cache, loc)
                THEN \* lines 169-175: cache hit
                     /\ enrichment_lookup' =
                            Put(enrichment_lookup, e.id,
                                location_enrichment_from_cache(e.id, location_cache[loc]))
                     /\ geocode_targets' =
                            IF maps_api_key /\ (location_cache[loc].latitude = None
                                                \/ location_cache[loc].longitude = None)
                            THEN geocode_targets \cup {loc} ELSE geocode_targets
                     /\ UNCHANGED <<llm_cache, places_cache, unique_events, geo_calls>>
                ELSE IF tryPlaces /\ res.resolved
                THEN \* lines 178-184: resolved by the Places API
                     /\ enrichment_lookup' =
                            Put(enrichment_lookup, e.id, [res.value EXCEPT !.event_id = e.id])
                     /\ llm_cache' = WithLocations(llm_cache,
                            Put(location_cache, loc, cache_from_enrichment(res.value)))
                     /\ places_cache' = res.cache
                     /\ geo_calls' = geo_calls + (IF res.called THEN 1 ELSE 0)
                     /\ UNCHANGED <<unique_events, geocode_targets>>
                ELSE \* lines 186-197: queue for the LLM
                     /\ places_cache' = IF tryPlaces THEN res.cache ELSE places_cache
                     /\ geo_calls' = geo_calls + (IF tryPlaces /\ res.called THEN 1 ELSE 0)
                     /\ geocode_targets' =
                            IF maps_api_key THEN geocode_targets \cup {loc} ELSE geocode_targets
                     /\ unique_events' =
                            IF FirstTimeSeen(seen, loc)
                            THEN Append(unique_events, PromptItem(e, loc))
                            ELSE unique_events
                     /\ UNCHANGED <<llm_cache, enrichment_lookup>>
    /\ UNCHANGED <<pc, geo_todo, enrichments, mi, loaded_cache, llm_calls, first_lookup,
                   run, outcome>>
    /\ UNCHANGED <<inputVars, diskVars, classifyVars, batchVars, gatherVars, aggVars>>

\* lines 199-202: nothing to ask and nothing to geocode
EnrichEarlyReturn ==
    /\ mode = "enrich"
    /\ pc = "scan"
    /\ idx > Len(events)
    /\ unique_events = <<>> /\ geocode_targets = {}
    /\ disk_llm_cache' = save_cache(llm_cache)
    /\ disk_places_cache' = save_cache(places_cache)
    /\ pc' = "done"
    /\ outcome' = Returned
    /\ UNCHANGED <<idx, llm_cache, places_cache, enrichment_lookup, seen_locations,
                   unique_events, event_location_lookup, geocode_targets, geo_todo,
                   enrichments, mi, loaded_cache, llm_calls, geo_calls, first_lookup, run>>
    /\ UNCHANGED <<inputVars, classifyVars, batchVars, gatherVars, aggVars>>

\* lines 204-208: await _call_openai_parallel(...), which returns a list
EnrichCallReturns(results) ==
    /\ mode = "enrich"
    /\ pc = "scan"
    /\ idx > Len(events)
    /\ ~(unique_events = <<>> /\ geocode_targets = {})
    /\ results \in (IF unique_events = <<>> THEN {<<>>} ELSE LocationResultLists(unique_events))
    /\ enrichments' = results
    /\ llm_calls' = llm_calls + BatchCount(Len(unique_events))
    /\ mi' = 1
    /\ pc' = "merge"
    /\ UNCHANGED <<idx, llm_cache, places_cache, enrichment_lookup, seen_locations,
                   unique_events, event_location_lookup, geocode_targets, geo_todo,
                   loaded_cache, geo_calls, first_lookup, run, outcome>>
    /\ UNCHANGED <<inputVars, diskVars, classifyVars, batchVars, gatherVars, aggVars>>

\* lines 204-208: await _call_openai_parallel(...), which raises
EnrichCallRaises ==
    /\ mode = "enrich"
    /\ pc = "scan"
    /\ idx > Len(events)
    /\ unique_events # <<>>
    /\ llm_calls' = llm_calls + BatchCount(Len(unique_events))
    /\ pc' = "raised"
    /\ outcome' = [error |-> "APIError", text |-> "resolver failure"]
    /\ UNCHANGED <<idx, llm_cache, places_cache, enrichment_lookup, seen_locations,
                   unique_events, event_location_lookup, geocode_targets, geo_todo,
                   enrichments, mi, loaded_cache, geo_calls, first_lookup, run>>
    /\ UNCHANGED <<inputVars, diskVars, classifyVars, batchVars, gatherVars, aggVars>>

\* One iteration of `for e in enrichments` (lines 211-215)
MergeResult ==
    /\ mode = "enrich"
    /\ pc = "merge"
    /\ mi <= Len(enrichments)
    /\ mi' = mi + 1
    /\ LET e == enrichments[mi]
       IN  /\ enrichment_lookup' = Put(enrichment_lookup, e.event_id, e)
           /\ llm_cache' =
                IF Has(event_location_lookup, e.event_id)
                THEN WithLocations(llm_cache,
                        Put(location_cache, event_location_lookup[e.event_id],
                            cache_from_enrichment(e)))
                ELSE llm_cache
    /\ UNCHANGED <<pc, idx, places_cache, seen_locations, unique_events,
                   event_location_lookup, geocode_targets, geo_todo, enrichments,
                   loaded_cache, llm_calls, geo_calls, first_lookup, run, outcome>>
    /\ UNCHANGED <<inputVars, diskVars, classifyVars, batchVars, gatherVars, aggVars>>


\* lines 220-233: the inner loop over the event ids recorded under `loc`
RECURSIVE PropagateTo(_, _, _, _)
PropagateTo(lookup, ids, k, rep_id) ==
    IF k > Len(ids) THEN lookup
    ELSE LET eid == ids[k]
         IN  With(IF Has(lookup, eid) THEN lookup
                  ELSE IF Has(lookup, rep_id)
                       THEN Put(lookup, eid, [lookup[rep_id] EXCEPT !.event_id = eid])
                       ELSE lookup,
                  LAMBDA next : PropagateTo(next, ids, k + 1, rep_id))

\* lines 218-233: the outer loop over unique_events
RECURSIVE PropagateAll(_, _, _, _)
PropagateAll(lookup, items, j, seen) ==
    IF j > Len(items) THEN lookup
    ELSE LET loc == items[j].location
             ids == IF Has(seen, loc) THEN seen[loc] ELSE <<>>
         IN  With(PropagateTo(lookup, ids, 1, items[j].event_id),
                  LAMBDA next : PropagateAll(next, items, j + 1, seen))

Propagate ==
    /\ mode = "enrich"
    /\ pc = "merge"
    /\ mi > Len(enrichments)
    /\ enrichment_lookup' = PropagateAll(enrichment_lookup, unique_events, 1, seen_locations)
    /\ geo_todo' = IF maps_api_key THEN geocode_targets ELSE {}
    /\ pc' = "geocode"
    /\ UNCHANGED <<idx, llm_cache, places_cache, seen_locations, unique_events,
                   event_location_lookup, geocode_targets, enrichments, mi, loaded_cache,
                   llm_calls, geo_calls, first_lookup, run, outcome>>
    /\ UNCHANGED <<inputVars, diskVars, classifyVars, batchVars, gatherVars, aggVars>>

\* lines 238-245, mutated: the keyword test of lines 244-245 is left out
SkipsGeocode_KeepsMeetingLinks(cache, loc) ==
    LET cached == IF Has(cache, loc) THEN cache[loc] ELSE EmptyDict
        low == Lower(loc)
    IN  \/ DictGet(cached, "latitude") # None /\ DictGet(cached, "longitude") # None
        \/ \E scheme \in UrlSchemes : StartsWith(low, scheme)
\* lines 238-245: the second pass skips this target without asking the Places API
SkipsGeocode(cache, loc) ==
    LET cached == IF Has(cache, loc) THEN cache[loc] ELSE EmptyDict
        low == Lower(loc)
    IN  \/ DictGet(cached, "latitude") # None /\ DictGet(cached, "longitude") # None
        \/ \E scheme \in UrlSchemes : StartsWith(low, scheme)
        \/ \E bad \in NonPhysicalKeywords : Contains(low, bad)

\* lines 251-261, mutated: the resolved values replace the cached ones
MergeIntoCache_Overwrites(cached, resolved) ==
    [venue_name |-> resolved.venue_name,
     neighborhood |-> resolved.neighborhood,
     city |-> resolved.city,
     cuisine |-> resolved.cuisine,
     latitude |-> resolved.latitude,
     longitude |-> resolved.longitude]
\* lines 251-261: cached.update({...})
MergeIntoCache(cached, resolved) ==
    [venue_name |-> Or(DictGet(cached, "venue_name"), resolved.venue_name),
     neighborhood |-> Or(DictGet(cached, "neighborhood"), resolved.neighborhood),
     city |-> Or(DictGet(cached, "city"), resolved.city),
     cuisine |-> Or(DictGet(cached, "cuisine"), resolved.cuisine),
     latitude |-> resolved.latitude,
     longitude |-> resolved.longitude]

\* lines 265-285: patch or create the lookup entry of one event
PatchEntry(lookup, eid, resolved) ==
    IF Has(lookup, eid)
    THEN LET enr == lookup[eid]
             a == IF enr.latitude = None
                  THEN [enr EXCEPT !.latitude = resolved.latitude,
                                   !.longitude = resolved.longitude]
                  ELSE enr
             b == IF ~Truthy(a.neighborhood) /\ Truthy(resolved.neighborhood)
                  THEN [a EXCEPT !.neighborhood = resolved.neighborhood] ELSE a
             c == IF ~Truthy(b.city) /\ Truthy(resolved.city)
                  THEN [b EXCEPT !.city = resolved.city] ELSE b
             d == IF ~Truthy(c.cuisine) /\ Truthy(resolved.cuisine)
                  THEN [c EXCEPT !.cuisine = resolved.cuisine] ELSE c
         IN  Put(lookup, eid, d)
    ELSE Put(lookup, eid, [resolved EXCEPT !.event_id = eid])

RECURSIVE PatchAll(_, _, _, _)
PatchAll(lookup, ids, k, resolved) ==
    IF k > Len(ids) THEN lookup
    ELSE With(PatchEntry(lookup, ids[k], resolved),
              LAMBDA next : PatchAll(next, ids, k + 1, resolved))

\* `for loc in geocode_targets` visits the set in some order.  An iteration reads
\* and writes only what is keyed by its own loc (location_cache[loc],
\* places_cache[loc], the lookup entries of seen_locations[loc]), so every order
\* gives the same result and the model visits the targets in one fixed order.
NextTarget(todo) == CHOOSE loc \in todo : TRUE

\* One iteration of `for loc in geocode_targets` (lines 237-285)
GeocodeTarget(loc, geo) ==
    /\ mode = "enrich"
    /\ pc = "geocode"
    /\ geo_todo # {}
    /\ loc = NextTarget(geo_todo)
    /\ geo_todo' = geo_todo \ {loc}
    /\ IF SkipsGeocode(location_cache, loc)
       THEN UNCHANGED <<llm_cache, places_cache, enrichment_lookup, geo_calls>>
       ELSE LET res == resolve_place_from_location_string(loc, maps_api_key, places_cache, geo)
                cached == IF Has(location_cache, loc) THEN location_cache[loc] ELSE EmptyDict
                ids == IF Has(seen_locations, loc) THEN seen_locations[loc] ELSE <<>>
            IN  /\ geo_calls' = geo_calls + (IF res.called THEN 1 ELSE 0)
                /\ places_cache' = res.cache
                /\ IF ~res.resolved
                   THEN UNCHANGED <<llm_cache, enrichment_lookup>>
                   ELSE /\ llm_cache' = WithLocations(llm_cache,
                                Put(location_cache, loc, MergeIntoCache(cached, res.value)))
                        /\ enrichment_lookup' = PatchAll(enrichment_lookup, ids, 1, res.value)
    /\ UNCHANGED <<pc, idx, seen_locations, unique_events, event_location_lookup,
                   geocode_targets, enrichments, mi, loaded_cache, llm_calls, first_lookup,
                   run, outcome>>
    /\ UNCHANGED <<inputVars, diskVars, classifyVars, batchVars, gatherVars, aggVars>>

\* lines 287-289
EnrichSave ==
    /\ mode = "enrich"
    /\ pc = "geocode"
    /\ geo_todo = {}
    /\ disk_llm_cache' = save_cache(llm_cache)
    /\ disk_places_cache' = save_cache(places_cache)
    /\ pc' = "done"
    /\ outcome' = Returned
    /\ UNCHANGED <<idx, llm_cache, places_cache, enrichment_lookup, seen_locations,
                   unique_events, event_location_lookup, geocode_targets, geo_todo,
                   enrichments, mi, loaded_cache, llm_calls, geo_calls, first_lookup, run>>
    /\ UNCHANGED <<inputVars, classifyVars, batchVars, gatherVars, aggVars>>

\* The program is run again over the same events (cli.py run -> enrich_all_events_sync)
EnrichSecondRun ==
    /\ mode = "enrich"
    /\ pc = "done"
    /\ run = 1
    /\ run' = 2
    /\ first_lookup' = enrichment_lookup
    /\ pc' = "start"
    /\ idx' = 1
    /\ llm_cache' = EmptyLLMCache
    /\ places_cache' = EmptyDict
    /\ enrichment_lookup' = EmptyDict
    /\ seen_locations' = EmptyDict
    /\ unique_events' = <<>>
    /\ event_location_lookup' = EmptyDict
    /\ geocode_targets' = {}
    /\ geo_todo' = {}
    /\ enrichments' = <<>>
    /\ mi' = 1
    /\ loaded_cache' = EmptyLLMCache
    /\ llm_calls' = 0
    /\ geo_calls' = 0
    /\ outcome' = Running
    /\ UNCHANGED <<inputVars, diskVars, classifyVars, batchVars, gatherVars, aggVars>>

(***************************************************************************)
(* classify_solo_events                                                    *)
(***************************************************************************)
classification_cache == llm_cache.classification_by_summary
WithClassifications(cache, c) == [cache EXCEPT !.classification_by_summary = c]

\* {k: v for k, v in c.items() if k != key}
Without(c, key) == [k \in (DOMAIN c) \ {key} |-> c[k]]
\* {**a, **b}
Merge(a, b) == [k \in (DOMAIN a) \cup (DOMAIN b) |-> IF k \in DOMAIN b THEN b[k] ELSE a[k]]

\* round(e.duration_minutes / 60, 1) in tenths of an hour; the durations of the
\* model are multiples of 6 minutes, for which the quotient is exact.
HoursTenths(minutes) == minutes \div 6

\* lines 316-322
EventPayload(e) ==
    [event_id |-> e.id, summary |-> e.summary, date |-> e.date,
     hours |-> HoursTenths(e.duration_minutes), location_raw |-> e.location_raw]

\* lines 330-334
ClassifyPromptItem(e) ==
    LET location_hint == shorten_location(e.location_raw)
        base == [event_id |-> e.id, summary |-> shorten_text(e.summary)]
    IN  IF location_hint # <<>> THEN Merge(base, [location_hint |-> location_hint]) ELSE base

\* lines 339-346, 373-380, 390-397: a classification entry of one event
ClassificationEntry(event_id, cached, meta) ==
    Merge(Merge([event_id |-> event_id], cached),
          [summary |-> DictGet(meta, "summary"), date |-> DictGet(meta, "date"),
           hours |-> DictGet(meta, "hours"), location_raw |-> DictGet(meta, "location_raw")])

\* summary_to_events[summary_key].append(event_payload) on the ordered dict
OrderedKeys(od) == [i \in 1..Len(od) |-> od[i].key]
OrderedHas(od, k) == \E i \in 1..Len(od) : od[i].key = k
OrderedAppend(od, k, v) ==
    IF OrderedHas(od, k)
    THEN [i \in 1..Len(od) |->
            IF od[i].key = k THEN [od[i] EXCEPT !.events = Append(@, v)] ELSE od[i]]
    ELSE Append(od, [key |-> k, events |-> <<v>>])

\* The resolver's answer for one prompt item: a SOCIAL classification, or a
\* result that carries nothing but the id.
SocialResult(id) == [event_id |-> id, type |-> "SOCIAL", names |-> <<<<"M","a","s","h","a">>>>]
BareResult(id) == [event_id |-> id]
OtherResult(id) == [event_id |-> id, type |-> "OTHER"]

RECURSIVE ItemClassifications(_, _)
ItemClassifications(items, j) ==
    IF j > Len(items) THEN {<<>>}
    ELSE LET rest == ItemClassifications(items, j + 1)
             id == items[j].event_id
         IN  rest \cup {<<r>> \o s : r \in {SocialResult(id), BareResult(id)}, s \in rest}
ClassificationResultLists(items) ==
    LET all == [j \in 1..Len(items) |-> SocialResult(items[j].event_id)]
    IN  ItemClassifications(items, 1) \cup {all \o <<OtherResult(id)>> : id \in StrayIds}

\* lines 298-311
ClassifyStart ==
    /\ mode = "classify"
    /\ pc = "start"
    /\ IF CredentialMissing(api_key)
       THEN /\ pc' = "raised"
            /\ outcome' = [error |-> "ValueError", text |-> "OPENAI_API_KEY not set"]
            /\ UNCHANGED <<llm_cache, loaded_cache>>
       ELSE /\ pc' = "scan"
            /\ llm_cache' = load_llm_cache(disk_llm_cache)
            /\ loaded_cache' = load_llm_cache(disk_llm_cache)
            /\ UNCHANGED outcome
    /\ UNCHANGED <<idx, places_cache, enrichment_lookup, seen_locations, unique_events,
                   event_location_lookup, geocode_targets, geo_todo, enrichments, mi,
                   llm_calls, geo_calls, first_lookup, run>>
    /\ UNCHANGED <<inputVars, diskVars, classifyVars, batchVars, gatherVars, aggVars>>

\* One iteration of `for e in events` (lines 313-346)
ClassifyScanEvent ==
    /\ mode = "classify"
    /\ pc = "scan"
    /\ idx <= Len(events)
    /\ idx' = idx + 1
    /\ LET e == events[idx]
           event_payload == EventPayload(e)
           summary_key == Strip(Lower(e.summary))
       IN  IF ~TruthyStr(e.summary)
           THEN UNCHANGED classifyVars
           ELSE /\ summary_to_events' = OrderedAppend(summary_to_events, summary_key, event_payload)
                /\ summary_for_event' = Put(summary_for_event, e.id, summary_key)
                /\ event_meta_by_id' = Put(event_meta_by_id, e.id, event_payload)
                /\ prompt_event_by_summary' =
                       IF Has(prompt_event_by_summary, summary_key)
                       THEN prompt_event_by_summary
                       ELSE Put(prompt_event_by_summary, summary_key, ClassifyPromptItem(e))
                /\ classification_by_id' =
                       IF DictTruthy(classification_cache, summary_key)
                       THEN Put(classification_by_id, e.id,
                                ClassificationEntry(e.id, classification_cache[summary_key],
                                                    event_payload))
                       ELSE classification_by_id
                /\ UNCHANGED <<events_for_classification, classifications>>
    /\ UNCHANGED <<pc, llm_cache, places_cache, enrichment_lookup, seen_locations,
                   unique_events, event_location_lookup, geocode_targets, geo_todo,
                   enrichments, mi, loaded_cache, llm_calls, geo_calls, first_lookup, run,
                   outcome>>
    /\ UNCHANGED <<inputVars, diskVars, batchVars, gatherVars, aggVars>>

\* lines 349-353: the prompt items of the summaries that are not in the cache
RECURSIVE UncachedPromptItems(_, _, _, _)
UncachedPromptItems(keys, j, cache, prompts) ==
    IF j > Len(keys) THEN <<>>
    ELSE (IF ~Has(cache, keys[j]) /\ Has(prompts, keys[j])
          THEN <<prompts[keys[j]]>> ELSE <<>>)
         \o UncachedPromptItems(keys, j + 1, cache, prompts)

\* lines 348-355
ClassifyBuild ==
    /\ mode = "classify"
    /\ pc = "scan"
    /\ idx > Len(events)
    /\ events_for_classification' =
           UncachedPromptItems(OrderedKeys(summary_to_events), 1, classification_cache,
                               prompt_event_by_summary)
    /\ pc' = IF events_for_classification' # <<>> THEN "call" ELSE "save"
    /\ UNCHANGED <<idx, llm_cache, places_cache, enrichment_lookup, seen_locations,
                   unique_events, event_location_lookup, geocode_targets, geo_todo,
                   enrichments, mi, loaded_cache, llm_calls, geo_calls, first_lookup, run,
                   outcome>>
    /\ UNCHANGED <<summary_to_events, classification_by_id, summary_for_event,
                   event_meta_by_id, prompt_event_by_summary, classifications>>
    /\ UNCHANGED <<inputVars, diskVars, batchVars, gatherVars, aggVars>>

\* lines 356-363: await _call_openai_parallel(...), which returns a list
ClassifyCallReturns(results) ==
    /\ mode = "classify"
    /\ pc = "call"
    /\ results \in ClassificationResultLists(events_for_classification)
    /\ classifications' = results
    /\ llm_calls' = llm_calls + BatchCount(Len(events_for_classification))
    /\ mi' = 1
    /\ pc' = "merge"
    /\ UNCHANGED <<idx, llm_cache, places_cache, enrichment_lookup, seen_locations,
                   unique_events, event_location_lookup, geocode_targets, geo_todo,
                   enrichments, loaded_cache, geo_calls, first_lookup, run, outcome>>
    /\ UNCHANGED <<summary_to_events, classification_by_id, summary_for_event,
                   event_meta_by_id, prompt_event_by_summary, events_for_classification>>
    /\ UNCHANGED <<inputVars, diskVars, batchVars, gatherVars, aggVars>>

\* lines 356-363: await _call_openai_parallel(...), which raises
ClassifyCallRaises ==
    /\ mode = "classify"
    /\ pc = "call"
    /\ llm_calls' = llm_calls + BatchCount(Len(events_for_classification))
    /\ pc' = "raised"
    /\ outcome' = [error |-> "APIError", text |-> "resolver failure"]
    /\ UNCHANGED <<idx, llm_cache, places_cache, enrichment_lookup, seen_locations,
                   unique_events, event_location_lookup, geocode_targets, geo_todo,
                   enrichments, mi, loaded_cache, geo_calls, first_lookup, run>>
    /\ UNCHANGED <<inputVars, diskVars, classifyVars, batchVars, gatherVars, aggVars>>

\* One iteration of `for c in classifications` (lines 365-380)
ClassifyMergeResult ==
    /\ mode = "classify"
    /\ pc = "merge"
    /\ mi <= Len(classifications)
    /\ mi' = mi + 1
    /\ LET c == classifications[mi]
           event_id == c.event_id
           known == Has(summary_for_event, event_id) /\ summary_for_event[event_id] # <<>>
       IN  IF ~known
           THEN UNCHANGED <<llm_cache, classification_by_id>>
           ELSE LET summary_key == summary_for_event[event_id]
                    cached_payload == Without(c, "event_id")
                    event_meta == IF Has(event_meta_by_id, event_id)
                                  THEN event_meta_by_id[event_id] ELSE EmptyDict
                IN  /\ llm_cache' = WithClassifications(llm_cache,
                            Put(classification_cache, summary_key, cached_payload))
                    /\ classification_by_id' =
                            Put(classification_by_id, event_id,
                                ClassificationEntry(event_id, cached_payload, event_meta))
    /\ UNCHANGED <<pc, idx, places_cache, enrichment_lookup, seen_locations, unique_events,
                   event_location_lookup, geocode_targets, geo_todo, enrichments,
                   loaded_cache, llm_calls, geo_calls, first_lookup, run, outcome>>
    /\ UNCHANGED <<summary_to_events, summary_for_event, event_meta_by_id,
                   prompt_event_by_summary, events_for_classification, classifications>>
    /\ UNCHANGED <<inputVars, diskVars, batchVars, gatherVars, aggVars>>

\* lines 387-397: the events of one summary
RECURSIVE PropagateClassification(_, _, _, _)
PropagateClassification(by_id, grouped, k, cached) ==
    IF k > Len(grouped) THEN by_id
    ELSE LET ev == grouped[k]
         IN  With(IF Has(by_id, ev.event_id) THEN by_id
                  ELSE Put(by_id, ev.event_id, ClassificationEntry(ev.event_id, cached, ev)),
                  LAMBDA next : PropagateClassification(next, grouped, k + 1, cached))

\* lines 383-397: every summary
RECURSIVE PropagateClassifications(_, _, _, _)
PropagateClassifications(by_id, od, j, cache) ==
    IF j > Len(od) THEN by_id
    ELSE With(IF DictTruthy(cache, od[j].key)
              THEN PropagateClassification(by_id, od[j].events, 1, cache[od[j].key])
              ELSE by_id,
              LAMBDA next : PropagateClassifications(next, od, j + 1, cache))

ClassifyPropagate ==
    /\ mode = "classify"
    /\ pc = "merge"
    /\ mi > Len(classifications)
    /\ classification_by_id' =
           PropagateClassifications(classification_by_id, summary_to_events, 1,
                                    classification_cache)
    /\ pc' = "save"
    /\ UNCHANGED <<idx, llm_cache, places_cache, enrichment_lookup, seen_locations,
                   unique_events, event_location_lookup, geocode_targets, geo_todo,
                   enrichments, mi, loaded_cache, llm_calls, geo_calls, first_lookup, run,
                   outcome>>
    /\ UNCHANGED <<summary_to_events, summary_for_event, event_meta_by_id,
                   prompt_event_by_summary, events_for_classification, classifications>>
    /\ UNCHANGED <<inputVars, diskVars, batchVars, gatherVars, aggVars>>

\* line 399 and the return
ClassifySave ==
    /\ mode = "classify"
    /\ pc = "save"
    /\ disk_llm_cache' = save_cache(llm_cache)
    /\ pc' = "done"
    /\ outcome' = Returned
    /\ UNCHANGED <<idx, llm_cache, places_cache, enrichment_lookup, seen_locations,
                   unique_events, event_location_lookup, geocode_targets, geo_todo,
                   enrichments, mi, loaded_cache, llm_calls, geo_calls, first_lookup, run>>
    /\ UNCHANGED <<inputVars, disk_places_cache, classifyVars, batchVars, gatherVars, aggVars>>

\* The program is run again over the same events (cli.py run -> classify_solo_events_sync)
ClassifySecondRun ==
    /\ mode = "classify"
    /\ pc = "done"
    /\ run = 1
    /\ run' = 2
    /\ pc' = "start"
    /\ idx' = 1
    /\ mi' = 1
    /\ llm_cache' = EmptyLLMCache
    /\ loaded_cache' = EmptyLLMCache
    /\ llm_calls' = 0
    /\ outcome' = Running
    /\ summary_to_events' = <<>>
    /\ classification_by_id' = EmptyDict
    /\ summary_for_event' = EmptyDict
    /\ event_meta_by_id' = EmptyDict
    /\ prompt_event_by_summary' = EmptyDict
    /\ events_for_classification' = <<>>
    /\ classifications' = <<>>
    /\ UNCHANGED <<places_cache, enrichment_lookup, seen_locations, unique_events,
                   event_location_lookup, geocode_targets, geo_todo, enrichments,
                   geo_calls, first_lookup>>
    /\ UNCHANGED <<inputVars, diskVars, batchVars, gatherVars, aggVars>>

(***************************************************************************)
(* _aggregate_inferred_friends, _aggregate_activity_stats, suggest_merges  *)
(*                                                                         *)
(* Hours are counted in tenths (the payload's hours are rounded to one     *)
(* decimal), so round(total, 1) changes nothing.  A dict that keeps its    *)
(* insertion order is a sequence of entries.                               *)
(***************************************************************************)

\* line 472, mutated: sorted by the first component of the key alone
SortDesc_FirstOnly(items) ==
    LET RECURSIVE Insert(_, _)
        Insert(sorted, x) ==
            IF sorted = <<>> THEN <<x>>
            ELSE IF x.key[1] > Head(sorted).key[1] THEN <<x>> \o sorted
            ELSE <<Head(sorted)>> \o Insert(Tail(sorted), x)
        RECURSIVE Sort(_)
        Sort(n) == IF n = 0 THEN <<>>
                   ELSE With(Sort(n - 1), LAMBDA sorted : Insert(sorted, items[n]))
    IN  Sort(Len(items))

\* list.sort(key=..., reverse=True) and Counter.most_common: descending by
\* key (a pair), entries of equal key in their original order
SortDesc(items) ==
    LET Greater(a, b) == a[1] > b[1] \/ (a[1] = b[1] /\ a[2] > b[2])
        RECURSIVE Insert(_, _)
        Insert(sorted, x) ==
            IF sorted = <<>> THEN <<x>>
            ELSE IF Greater(x.key, Head(sorted).key) THEN <<x>> \o sorted
            ELSE <<Head(sorted)>> \o Insert(Tail(sorted), x)
        RECURSIVE Sort(_)
        Sort(n) == IF n = 0 THEN <<>>
                   ELSE With(Sort(n - 1), LAMBDA sorted : Insert(sorted, items[n]))
    IN  Sort(Len(items))

\* lines 417-474; an enrichment_lookup of None behaves as the empty dict (437)
aggregate_inferred_friends(event_ids, by_id, lookup) ==
    LET FriendEvent(id, c) ==
            [id |-> id, summary |-> DictGet(c, "summary"), date |-> DictGet(c, "date"),
             hours |-> IF Has(c, "hours") THEN c.hours ELSE 0,
             location_raw |-> DictGet(c, "location_raw"),
             venue_name |-> IF Has(lookup, id) THEN lookup[id].venue_name ELSE None,
             neighborhood |-> IF Has(lookup, id) THEN lookup[id].neighborhood ELSE None,
             cuisine |-> IF Has(lookup, id) THEN lookup[id].cuisine ELSE None]
        \* lines 439-456: one iteration of `for name in names`
        AddName(by_name, name, id, c) ==
            LET key == Lower(Strip(name))
                hours == IF Has(c, "hours") THEN c.hours ELSE 0
            IN  IF name = <<>> THEN by_name
                ELSE IF \E i \in 1..Len(by_name) : by_name[i].key = key
                THEN [i \in 1..Len(by_name) |->
                        IF by_name[i].key = key
                        THEN [by_name[i] EXCEPT !.total_hours = @ + hours,
                                                !.events = Append(@, FriendEvent(id, c))]
                        ELSE by_name[i]]
                ELSE Append(by_name, [key |-> key, display_name |-> Strip(name),
                                      events |-> <<FriendEvent(id, c)>>,
                                      total_hours |-> hours])
        RECURSIVE AddNames(_, _, _, _, _)
        AddNames(by_name, names, j, id, c) ==
            IF j > Len(names) THEN by_name
            ELSE With(AddName(by_name, names[j], id, c),
                      LAMBDA next : AddNames(next, names, j + 1, id, c))
        \* lines 427-456: `for event_id in event_ids`
        RECURSIVE Group(_, _)
        Group(by_name, i) ==
            IF i > Len(event_ids) THEN by_name
            ELSE LET id == event_ids[i] IN
                 IF ~Has(by_id, id) \/ DictGet(by_id[id], "type") # "SOCIAL"
                    \/ ~Has(by_id[id], "names")
                 THEN Group(by_name, i + 1)
                 ELSE With(AddNames(by_name, by_id[id].names, 1, id, by_id[id]),
                           LAMBDA next : Group(next, i + 1))
        grouped == Group(<<>>, 1)
        \* lines 459-471
        keyed == [i \in 1..Len(grouped) |->
                    [key |-> <<Len(grouped[i].events), grouped[i].total_hours>>,
                     friend |-> [name |-> grouped[i].display_name,
                                 normalized_name |-> grouped[i].key,
                                 event_count |-> Len(grouped[i].events),
                                 total_hours |-> grouped[i].total_hours,
                                 events |-> grouped[i].events]]]
        sorted == SortDesc(keyed)
    IN  [i \in 1..Len(sorted) |-> sorted[i].friend]

\* lines 525-526, mutated: the first n entries of the counter as they were
\* inserted
most_common_Unsorted(counter, n) ==
    [i \in 1..Min(n, Len(counter)) |-> <<counter[i].item, counter[i].count>>]
\* lines 525-526, Counter.most_common(n): the n entries of highest count, by
\* count descending, entries of equal count in the order of their insertion
most_common(counter, n) ==
    With(SortDesc([i \in 1..Len(counter) |->
                     [key |-> <<counter[i].count, 0>>, entry |-> counter[i]]]),
         LAMBDA sorted :
            [i \in 1..Min(n, Len(sorted)) |-> <<sorted[i].entry.item, sorted[i].entry.count>>])

\* line 501, mutated: the venue of the location enrichment comes first
venue_name_EnrichmentFirst(c, id, lookup) ==
    Or(IF Has(lookup, id) THEN lookup[id].venue_name ELSE None, DictGet(c, "venue"))
\* lines 496-501: `venue_from_classification or (enrichment.venue_name if
\* enrichment else None)`; an enrichment_lookup of None has no enrichment
venue_name_of(c, id, lookup) ==
    Or(DictGet(c, "venue"), IF Has(lookup, id) THEN lookup[id].venue_name ELSE None)

\* lines 477-530; the result maps each category to its ActivityCategoryStats
aggregate_activity_stats(event_ids, by_id, lookup) ==
    LET Count(counter, k) ==
            IF \E i \in 1..Len(counter) : counter[i].item = k
            THEN [i \in 1..Len(counter) |->
                    IF counter[i].item = k THEN [counter[i] EXCEPT !.count = @ + 1]
                    ELSE counter[i]]
            ELSE Append(counter, [item |-> k, count |-> 1])
        \* lines 487-515: one iteration of `for event_id in event_ids`
        Add(by_category, id, c) ==
            LET category == IF Has(c, "category") THEN c.category ELSE "other"
                activity_type == IF Has(c, "activity_type") THEN c.activity_type ELSE "unknown"
                venue_name == venue_name_of(c, id, lookup)
                hours == IF Has(c, "hours") THEN c.hours ELSE 0
                fresh == [category |-> category, event_count |-> 0, total_hours |-> 0,
                          venues |-> <<>>, types |-> <<>>]
                Bump(data) ==
                    [data EXCEPT !.event_count = @ + 1,
                                 !.total_hours = @ + hours,
                                 !.venues = IF Truthy(venue_name) THEN Count(@, venue_name)
                                            ELSE @,
                                 !.types = IF Truthy(activity_type)
                                           THEN Count(@, activity_type) ELSE @]
            IN  IF \E i \in 1..Len(by_category) : by_category[i].category = category
                THEN [i \in 1..Len(by_category) |->
                        IF by_category[i].category = category THEN Bump(by_category[i])
                        ELSE by_category[i]]
                ELSE Append(by_category, Bump(fresh))
        RECURSIVE Group(_, _)
        Group(by_category, i) ==
            IF i > Len(event_ids) THEN by_category
            ELSE LET id == event_ids[i] IN
                 IF ~Has(by_id, id) \/ DictGet(by_id[id], "type") # "ACTIVITY"
                 THEN Group(by_category, i + 1)
                 ELSE With(Add(by_category, id, by_id[id]),
                           LAMBDA next : Group(next, i + 1))
        grouped == Group(<<>>, 1)
        Stats(cat) == LET data == grouped[CHOOSE i \in 1..Len(grouped) :
                                              grouped[i].category = cat]
                      IN  [category |-> cat, event_count |-> data.event_count,
                           total_hours |-> data.total_hours,
                           top_venues |-> most_common(data.venues, 5),
                           top_activities |-> most_common(data.types, 5)]
    IN  [cat \in {grouped[i].category : i \in 1..Len(grouped)} |-> Stats(cat)]

\* line 543: ef.email.split("@")[0].lower()
email_prefix(ef) == Lower(SplitFirst(ef.email, "@"))

\* line 545, mutated: only the name inside the local part counts
NamesMatch_OneWay(inf, ef) == Contains(email_prefix(ef), inf.normalized_name)
\* line 545
NamesMatch(inf, ef) ==
    \/ Contains(email_prefix(ef), inf.normalized_name)
    \/ Contains(inf.normalized_name, email_prefix(ef))

\* lines 547-548, mutated: the display name is compared as it is written
Confidence_CaseSensitive(inf, ef) ==
    IF TruthyStr(ef.display_name) /\ Contains(ef.display_name, inf.normalized_name)
    THEN "high" ELSE "medium"
\* lines 547-548
Confidence(inf, ef) ==
    IF TruthyStr(ef.display_name) /\ Contains(Lower(ef.display_name), inf.normalized_name)
    THEN "high" ELSE "medium"

\* lines 533-557
suggest_merges(inferred, email_list) ==
    LET Suggestion(inf, ef) ==
            [inferred_name |-> inf.name, suggested_email |-> ef.email,
             confidence |-> Confidence(inf, ef),
             reason |-> [name |-> inf.name, email_prefix |-> email_prefix(ef)]]
        RECURSIVE Inner(_, _, _)
        Inner(out, i, j) ==
            IF j > Len(email_list) THEN out
            ELSE Inner(IF NamesMatch(inferred[i], email_list[j])
                       THEN Append(out, Suggestion(inferred[i], email_list[j])) ELSE out,
                       i, j + 1)
        RECURSIVE Outer(_, _)
        Outer(out, i) == IF i > Len(inferred) THEN out ELSE Outer(Inner(out, i, 1), i + 1)
    IN  Outer(<<>>, 1)

(***************************************************************************)
(* The pipelines as functions of what they load and of what the resolver   *)
(* returns.                                                                *)
(***************************************************************************)
\* lines 158-197 of enrich_all_events, GOOGLE_MAPS_API_KEY unset: the loop over
\* the events, from a loaded cache to the await of _call_openai_parallel
enrich_scan(evs, cache) ==
    LET RECURSIVE Scan(_, _)
        Scan(st, i) ==
            IF i > Len(evs) THEN st
            ELSE LET e == evs[i]
                     loc == Strip(e.location_raw)
                     seen == Put(st.seen, loc,
                                 (IF Has(st.seen, loc) THEN st.seen[loc] ELSE <<>>) \o <<e.id>>)
                 IN  With(IF ~TruthyStr(e.location_raw) \/ loc = <<>> THEN st
                          ELSE IF DictTruthy(cache.locations_by_location, loc)
                          THEN [st EXCEPT !.seen = seen, !.ell = Put(@, e.id, loc),
                                          !.lookup = Put(@, e.id,
                                              location_enrichment_from_cache(
                                                  e.id, cache.locations_by_location[loc]))]
                          ELSE [st EXCEPT !.seen = seen, !.ell = Put(@, e.id, loc),
                                          !.unique = IF FirstTimeSeen(seen, loc)
                                                     THEN Append(@, PromptItem(e, loc)) ELSE @],
                          LAMBDA next : Scan(next, i + 1))
    IN  Scan([lookup |-> EmptyDict, seen |-> EmptyDict, unique |-> <<>>,
              ell |-> EmptyDict], 1)

\* enrich_all_events from a loaded cache to its return, GOOGLE_MAPS_API_KEY
\* unset (so that geocode_targets stays empty and the second pass does
\* nothing); `results` is what _call_openai_parallel returns for unique_events
enrich_run(evs, cache, results) ==
    LET scanned == enrich_scan(evs, cache)
        \* lines 211-215
        RECURSIVE MergeAll(_, _)
        MergeAll(st, m) ==
            IF m > Len(results) THEN st
            ELSE LET e == results[m] IN
                 With([lookup |-> Put(st.lookup, e.event_id, e),
                       cache |-> IF Has(scanned.ell, e.event_id)
                                 THEN WithLocations(st.cache,
                                        Put(st.cache.locations_by_location,
                                            scanned.ell[e.event_id],
                                            cache_from_enrichment(e)))
                                 ELSE st.cache],
                      LAMBDA next : MergeAll(next, m + 1))
        merged == MergeAll([lookup |-> scanned.lookup, cache |-> cache], 1)
    IN  [unique_events |-> scanned.unique,
         seen_locations |-> scanned.seen,
         event_location_lookup |-> scanned.ell,
         lookup |-> IF scanned.unique = <<>> THEN scanned.lookup
                    ELSE PropagateAll(merged.lookup, scanned.unique, 1, scanned.seen),
         llm_cache |-> IF scanned.unique = <<>> THEN cache ELSE merged.cache]

\* lines 313-353 of classify_solo_events: the loop over the events and the
\* prompt list, from a loaded cache to the await of _call_openai_parallel
classify_scan(evs, cache) ==
    LET RECURSIVE Scan(_, _)
        Scan(st, i) ==
            IF i > Len(evs) THEN st
            ELSE LET e == evs[i]
                     event_payload == EventPayload(e)
                     summary_key == Strip(Lower(e.summary))
                 IN  With(IF ~TruthyStr(e.summary) THEN st
                          ELSE [od |-> OrderedAppend(st.od, summary_key, event_payload),
                                ids |-> Append(st.ids, e.id),
                                sfe |-> Put(st.sfe, e.id, summary_key),
                                meta |-> Put(st.meta, e.id, event_payload),
                                prompts |-> IF Has(st.prompts, summary_key) THEN st.prompts
                                            ELSE Put(st.prompts, summary_key,
                                                     ClassifyPromptItem(e)),
                                by_id |-> IF DictTruthy(cache.classification_by_summary,
                                                        summary_key)
                                          THEN Put(st.by_id, e.id,
                                                   ClassificationEntry(e.id,
                                                       cache.classification_by_summary[summary_key],
                                                       event_payload))
                                          ELSE st.by_id],
                          LAMBDA next : Scan(next, i + 1))
    IN  With(Scan([od |-> <<>>, ids |-> <<>>, sfe |-> EmptyDict, meta |-> EmptyDict,
                   prompts |-> EmptyDict, by_id |-> EmptyDict], 1),
             LAMBDA st :
                [od |-> st.od, ids |-> st.ids, sfe |-> st.sfe, meta |-> st.meta,
                 prompts |-> st.prompts, by_id |-> st.by_id,
                 \* lines 349-353
                 items |-> UncachedPromptItems(OrderedKeys(st.od), 1,
                                               cache.classification_by_summary,
                                               st.prompts)])

\* classify_solo_events from a loaded cache to its return; `results` is what
\* _call_openai_parallel returns for events_for_classification
classify_run(evs, cache, lookup, results) ==
    LET scanned == classify_scan(evs, cache)
        items == scanned.items
        \* lines 365-380
        RECURSIVE MergeAll(_, _)
        MergeAll(st, m) ==
            IF m > Len(results) THEN st
            ELSE LET c == results[m]
                     event_id == c.event_id
                 IN  With(
                       IF ~(Has(scanned.sfe, event_id) /\ scanned.sfe[event_id] # <<>>)
                       THEN st
                       ELSE [cache |-> WithClassifications(st.cache,
                                          Put(st.cache.classification_by_summary,
                                              scanned.sfe[event_id], Without(c, "event_id"))),
                             by_id |-> Put(st.by_id, event_id,
                                           ClassificationEntry(event_id, Without(c, "event_id"),
                                                               scanned.meta[event_id]))],
                       LAMBDA next : MergeAll(next, m + 1))
        merged == IF items = <<>> THEN [cache |-> cache, by_id |-> scanned.by_id]
                  ELSE MergeAll([cache |-> cache, by_id |-> scanned.by_id], 1)
        \* lines 383-397
        by_id == IF items = <<>> THEN merged.by_id
                 ELSE PropagateClassifications(merged.by_id, scanned.od, 1,
                                               merged.cache.classification_by_summary)
    IN  [events_for_classification |-> items,
         summary_to_events |-> scanned.od,
         summary_for_event |-> scanned.sfe,
         event_meta_by_id |-> scanned.meta,
         prompt_event_by_summary |-> scanned.prompts,
         llm_cache |-> merged.cache,
         classification_by_id |-> by_id,
         \* lines 401-414
         friends |-> IF by_id = EmptyDict THEN <<>>
                     ELSE aggregate_inferred_friends(scanned.ids, by_id, lookup),
         activity_stats |-> IF by_id = EmptyDict THEN EmptyDict
                            ELSE aggregate_activity_stats(scanned.ids, by_id, lookup)]

(***************************************************************************)
(* _call_openai_parallel and _call_openai_batch                            *)
(*                                                                         *)
(* An exception is a record: its type, the markers its lower-cased text    *)
(* contains (of "429", "rate_limit", "timeout", "timed out"), and where it *)
(* was raised (batch, attempt), which tells two exceptions apart.          *)
(***************************************************************************)
Batches == 1..NumBatches

NoError == [type |-> "none", marks |-> {}, batch |-> 0, attempt |-> 0]
Error(type, marks, b, a) == [type |-> type, marks |-> marks, batch |-> b, attempt |-> a]
\* The exceptions that handling a response (lines 640-655) lets escape
ParseErrorTypes == {"AttributeError", "TypeError"}

\* What client.responses.create may raise
RaisedByCall(b, a) ==
    {Error("RateLimitError", {"429", "rate_limit"}, b, a),
     Error("APITimeoutError", {"timed out"}, b, a),
     Error("AuthenticationError", {}, b, a)}

\* lines 659-662
is_rate_limit(e) == "429" \in e.marks \/ "rate_limit" \in e.marks
is_timeout(e) == "timeout" \in e.marks \/ "timed out" \in e.marks
\* line 662, mutated: every error is retried
IsTransient_Always(e) == TRUE
\* line 662: `if is_rate_limit or is_timeout`
IsTransient(e) == is_rate_limit(e) \/ is_timeout(e)

\* 2 ** n
RECURSIVE Pow2(_)
Pow2(n) == IF n = 0 THEN 1 ELSE 2 * Pow2(n - 1)
\* line 664, mutated: linear backoff
wait_time_Linear(a) == BackoffBase * (a + 1)
\* line 664
wait_time(a) == BackoffBase * Pow2(a)

(***************************************************************************)
(* response.output_text: absent, or a text that may be fenced; the text is *)
(* prose, or a JSON document.  A JSON document is an array, or an object   *)
(* whose "results" is missing, null, a list of objects or a list of        *)
(* strings.                                                                *)
(***************************************************************************)
RMissing == [kind |-> "missing", items |-> <<>>]
RNull == [kind |-> "null", items |-> <<>>]
\* one record per prompt item of batch b, as the prompt asks for it
RObjects(b) ==
    [kind |-> "objects",
     items |-> [j \in 1..Len(batches[b]) |->
                  IF parse_fn = "location"
                  THEN LLMResult(batches[b][j].event_id, (b - 1) * batch_size + j)
                  ELSE SocialResult(batches[b][j].event_id)]]
RStrings == [kind |-> "strings", items |-> <<[str |-> "x"]>>]
JArray == [kind |-> "array", results |-> RMissing]
JObject(results) == [kind |-> "object", results |-> results]

Responses(b) ==
    {[fence |-> "none", text |-> "empty", value |-> JArray],
     [fence |-> "none", text |-> "prose", value |-> JArray],
     [fence |-> "json", text |-> "json", value |-> JObject(RObjects(b))],
     [fence |-> "none", text |-> "json", value |-> JObject(RObjects(b))],
     [fence |-> "none", text |-> "json", value |-> JObject(RMissing)],
     [fence |-> "none", text |-> "json", value |-> JObject(RNull)],
     [fence |-> "none", text |-> "json", value |-> JObject(RStrings)],
     [fence |-> "none", text |-> "json", value |-> JArray]}

\* A response that is valid structured data of the expected shape
WellFormed(resp) ==
    resp.text = "json" /\ resp.value.kind = "object" /\ resp.value.results.kind = "objects"

\* What a call of _call_openai_batch does: return a list (or None, when parse_fn
\* returned None) or raise.
Return(v) == [kind |-> "return", value |-> v, is_none |-> FALSE, error |-> NoError]
ReturnNone == [kind |-> "return", value |-> <<>>, is_none |-> TRUE, error |-> NoError]
Raise(e) == [kind |-> "raise", value |-> <<>>, is_none |-> FALSE, error |-> e]

\* _parse_location_results(data)
parse_location_results(data, b, a) ==
    IF data.kind # "object"
    THEN Raise(Error("AttributeError", {}, b, a))      \* data.get on a list
    ELSE CASE data.results.kind = "missing" -> Return(<<>>)
           [] data.results.kind = "null" -> Raise(Error("TypeError", {}, b, a))
           [] data.results.kind = "strings" -> Raise(Error("AttributeError", {}, b, a))
           [] data.results.kind = "objects" -> Return(data.results.items)

\* _parse_classification_results(data)
parse_classification_results(data, b, a) ==
    IF data.kind # "object"
    THEN Raise(Error("AttributeError", {}, b, a))
    ELSE CASE data.results.kind = "missing" -> Return(<<>>)
           [] data.results.kind = "null" -> ReturnNone
           [] OTHER -> Return(data.results.items)

\* lines 640-655: from the response to what the try block returns or raises
HandleResponse(resp, fn, b, a) ==
    IF resp.text = "empty" /\ resp.fence = "none" THEN Return(<<>>)   \* not content
    ELSE IF resp.text # "json" THEN Return(<<>>)                      \* JSONDecodeError
    ELSE IF fn = "location" THEN parse_location_results(resp.value, b, a)
    ELSE parse_classification_results(resp.value, b, a)

\* lines 608-614, mutated: the results are joined in the order in which the
\* batches completed (the batch that completes last is the one not yet recorded)
RECURSIVE Flatten_CompletionOrder(_, _)
Flatten_CompletionOrder(results, b) ==
    LET done == {completed[i] : i \in 1..Len(completed)}
        order == completed \o (IF done = 1..NumBatches THEN <<>>
                               ELSE <<CHOOSE c \in (1..NumBatches) \ done : TRUE>>)
    IN  IF b > NumBatches \/ b > Len(order) THEN <<>>
        ELSE results[order[b]].value \o Flatten_CompletionOrder(results, b + 1)

\* lines 611-614: all_results.extend(batch_result) over the batches in order
RECURSIVE Flatten(_, _)
Flatten(results, b) ==
    IF b > NumBatches THEN <<>> ELSE results[b].value \o Flatten(results, b + 1)

\* lines 607-616, mutated: the list is handed over as soon as one batch has
\* returned, while its siblings are still running
AfterBatch_ReturnsEarly(b, result) ==
    LET results == [batch_result EXCEPT ![b] = result]
    IN  IF parallel.state # "gathering" THEN parallel
        ELSE IF result.kind = "raise"
        THEN [state |-> "raised", value |-> <<>>, error |-> result.error]
        ELSE [state |-> "returned", value |-> Flatten(results, 1), error |-> NoError]

\* asyncio.gather(*tasks) as seen by _call_openai_parallel when batch b has just
\* finished with `result`: the first exception is raised at once, the list is
\* returned when every batch has returned.  _call_openai_parallel and the
\* pipeline that awaits it have no handler, so what gather raises leaves both.
AfterBatch(b, result) ==
    LET results == [batch_result EXCEPT ![b] = result]
        pcs == [batch_pc EXCEPT ![b] = IF result.kind = "return" THEN "returned" ELSE "raised"]
    IN  IF parallel.state # "gathering" THEN parallel
        ELSE IF result.kind = "raise"
        THEN [state |-> "raised", value |-> <<>>, error |-> result.error]
        ELSE IF \A c \in Batches : pcs[c] = "returned"
        THEN IF \E c \in Batches : results[c].is_none
             THEN [state |-> "raised", value |-> <<>>,
                   error |-> Error("TypeError", {}, 0, 0)]       \* extend(None)
             ELSE [state |-> "returned", value |-> Flatten(results, 1), error |-> NoError]
        ELSE parallel

\* line 602, mutated: the gate admits every batch
SemaphoreFree_Always(sem) == TRUE
\* line 602: `async with semaphore` enters only while a slot is free
SemaphoreFree(sem) == sem > 0

\* asyncio.Semaphore wakes its waiters first in, first out, and gather starts
\* the tasks in list order: the waiting batch of lowest index is admitted.
Acquire(b) ==
    /\ mode = "batch"
    /\ batch_pc[b] = "waiting"
    /\ SemaphoreFree(semaphore)
    /\ \A c \in Batches : c < b => batch_pc[c] # "waiting"
    /\ semaphore' = semaphore - 1
    /\ batch_pc' = [batch_pc EXCEPT ![b] = "calling"]
    /\ attempt' = [attempt EXCEPT ![b] = 0]
    /\ calls' = [calls EXCEPT ![b] = 1]
    /\ UNCHANGED <<parse_fn, ceiling, wrapper, batch_size, batches, completed, last_error,
                   sleeps, malformed, batch_result, parallel>>
    /\ UNCHANGED <<pc, outcome, pipelineRest>>

\* lines 757 and 771, mutated: the loop is left running
CancelSiblings_Never(pcs) == pcs
\* lines 757 and 771: asyncio.run(main) closes its loop when main has finished,
\* and cancels every task that is still pending first.  The CancelledError is
\* delivered at the task's current await (the semaphore, the request or the
\* sleep); it is no Exception, so line 657 does not catch it.
CancelSiblings(pcs) ==
    [c \in Batches |->
        IF pcs[c] \in {"waiting", "calling", "sleeping"} THEN "cancelled" ELSE pcs[c]]

\* lines 602-605, mutated: the slot comes back only when the batch returns
ReleasedSlots_OnReturnOnly(result) == IF result.kind = "return" THEN 1 ELSE 0
\* lines 602-605: `async with semaphore` releases its slot when the block is
\* left, by a return as by an exception
ReleasedSlots(result) == IF result.kind \in {"return", "raise"} THEN 1 ELSE 0

\* The batch leaves _call_openai_batch and `async with semaphore`; what gather
\* then raises leaves the pipeline that awaits _call_openai_parallel (lines
\* 206 and 357 are in no try block).
Finish(b, result) ==
    LET pcs == [batch_pc EXCEPT ![b] = IF result.kind = "return" THEN "returned" ELSE "raised"]
        leaves == /\ parallel.state = "gathering"
                  /\ AfterBatch(b, result).state = "raised"
                  /\ wrapper = "asyncio.run"
    IN
    /\ batch_pc' = IF leaves THEN CancelSiblings(pcs) ELSE pcs
    /\ batch_result' = [batch_result EXCEPT ![b] = result]
    /\ completed' = Append(completed, b)
    /\ semaphore' = semaphore + ReleasedSlots(result)
                     + (IF leaves
                        THEN Cardinality({c \in Batches : pcs[c] \in {"calling", "sleeping"}})
                        ELSE 0)
    /\ parallel' = AfterBatch(b, result)
    /\ pc' = CASE parallel'.state = "raised" -> "raised"
              [] parallel'.state = "returned" -> "merge"
              [] OTHER -> pc
    /\ outcome' = IF parallel'.state = "raised" /\ parallel.state = "gathering"
                  THEN parallel'.error ELSE outcome

\* lines 601-605, mutated: the slot is given back for the time of the sleep
SlotsDuringSleep_Released(sem) == sem + 1
\* lines 601-605: asyncio.sleep (line 665) runs inside `async with semaphore`,
\* so the free slots are what they were
SlotsDuringSleep(sem) == sem

\* lines 657-667: `except Exception as e` around the call and the handling of
\* its response
HandleException(b, e) ==
    /\ last_error' = [last_error EXCEPT ![b] = e]
    /\ IF IsTransient(e)
       THEN /\ sleeps' = [sleeps EXCEPT ![b] = Append(@, wait_time(attempt[b]))]
            /\ batch_pc' = [batch_pc EXCEPT ![b] = "sleeping"]
            /\ semaphore' = SlotsDuringSleep(semaphore)
            /\ UNCHANGED <<batch_result, parallel, pc, outcome, completed>>
       ELSE /\ Finish(b, Raise(e))
            /\ UNCHANGED sleeps

\* lines 634-655: the call returns a response
CallReturns(b, resp) ==
    /\ mode = "batch"
    /\ batch_pc[b] = "calling"
    /\ LET out == HandleResponse(resp, parse_fn, b, attempt[b])
       IN  IF out.kind = "return"
           THEN /\ Finish(b, out)
                /\ UNCHANGED <<last_error, sleeps>>
           ELSE HandleException(b, out.error)
    /\ malformed' = [malformed EXCEPT ![b] = ~WellFormed(resp)]
    /\ UNCHANGED <<parse_fn, ceiling, wrapper, batch_size, batches, attempt, calls>>
    /\ UNCHANGED pipelineRest

\* lines 634-638: the call raises
CallRaises(b, e) ==
    /\ mode = "batch"
    /\ batch_pc[b] = "calling"
    /\ HandleException(b, e)
    /\ UNCHANGED <<parse_fn, ceiling, wrapper, batch_size, batches, attempt, calls, malformed>>
    /\ UNCHANGED pipelineRest

\* lines 669-671, mutated: the exhausted batch gives up silently
AfterRetries_ReturnsEmpty(err) == Return(<<>>)
\* lines 669-671: `if last_error: raise last_error` / `return []`
AfterRetries(err) == IF err # NoError THEN Raise(err) ELSE Return(<<>>)

\* asyncio.sleep returns: `continue`, then the next attempt or lines 669-671
SleepEnds(b) ==
    /\ mode = "batch"
    /\ batch_pc[b] = "sleeping"
    /\ attempt' = [attempt EXCEPT ![b] = @ + 1]
    /\ IF attempt[b] + 1 < max_retries
       THEN /\ batch_pc' = [batch_pc EXCEPT ![b] = "calling"]
            /\ calls' = [calls EXCEPT ![b] = @ + 1]
            /\ UNCHANGED <<batch_result, semaphore, parallel, pc, outcome, completed>>
       ELSE /\ Finish(b, AfterRetries(last_error[b]))
            /\ UNCHANGED calls
    /\ UNCHANGED <<parse_fn, ceiling, wrapper, batch_size, batches, last_error, sleeps,
                   malformed>>
    /\ UNCHANGED pipelineRest

(***************************************************************************)
(* Specification of the pipelines.                                         *)
(***************************************************************************)
vars ==
    <<inputVars, diskVars, enrichVars, classifyVars, batchVars, gatherVars, aggVars, run,
      first_lookup>>

\* _call_openai_parallel has just built its batches and its semaphore
BatchFresh ==
    /\ batch_pc = [b \in Batches |-> "waiting"]
    /\ attempt = [b \in Batches |-> 0]
    /\ last_error = [b \in Batches |-> NoError]
    /\ sleeps = [b \in Batches |-> <<>>]
    /\ calls = [b \in Batches |-> 0]
    /\ malformed = [b \in Batches |-> FALSE]
    /\ batch_result = [b \in Batches |-> Return(<<>>)]
    /\ semaphore = ceiling
    /\ parallel = [state |-> "gathering", value |-> <<>>, error |-> NoError]
    /\ completed = <<>>
BatchIdle ==
    /\ parse_fn = "location"
    /\ ceiling = MAX_CONCURRENT_BATCHES
    /\ wrapper = "await"
    /\ batch_size = BATCH_SIZE
    /\ batches = <<>>
    /\ BatchFresh
\* enrich_and_classify_all is not running
GatherIdle ==
    /\ task_pc = [enrich |-> "ready", classify |-> "ready"]
    /\ classify_cache = EmptyLLMCache
    /\ gathered = <<>>
\* nothing has been aggregated
AggIdle ==
    /\ friends = <<>>
    /\ activity_stats = EmptyDict
    /\ email_friends = <<>>
    /\ suggestions = <<>>

EventLists(fieldSets) ==
    {ev \in [1..MaxEvents -> fieldSets] : \A i \in 1..MaxEvents : ev[i].id = IdTable[i]}

EnrichEvents ==
    EventLists([id : EventIds, summary : {SumGym}, location_raw : LocationUniverse,
                date : {"2025-01-01"}, duration_minutes : {60}])
ClassifyEvents ==
    EventLists([id : EventIds, summary : SummaryUniverse, location_raw : {NoneStr},
                date : {"2025-01-01"}, duration_minutes : {60}])

Init ==
    /\ mode \in {"enrich", "classify"}
    /\ events \in (IF mode = "enrich" THEN EnrichEvents ELSE ClassifyEvents)
    /\ api_key \in BOOLEAN
    /\ maps_api_key \in (IF mode = "enrich" THEN BOOLEAN ELSE {FALSE})
    /\ disk_llm_cache \in {AbsentFile, MalformedFile}
    /\ disk_places_cache \in (IF mode = "enrich"
                              THEN {AbsentPlacesFile, MalformedPlacesFile}
                              ELSE {AbsentPlacesFile})
    /\ run = 1
    /\ pc = "start"
    /\ idx = 1
    /\ llm_cache = EmptyLLMCache
    /\ places_cache = EmptyDict
    /\ enrichment_lookup = EmptyDict
    /\ seen_locations = EmptyDict
    /\ unique_events = <<>>
    /\ event_location_lookup = EmptyDict
    /\ geocode_targets = {}
    /\ geo_todo = {}
    /\ enrichments = <<>>
    /\ mi = 1
    /\ loaded_cache = EmptyLLMCache
    /\ llm_calls = 0
    /\ geo_calls = 0
    /\ first_lookup = EmptyDict
    /\ outcome = Running
    /\ summary_to_events = <<>>
    /\ classification_by_id = EmptyDict
    /\ summary_for_event = EmptyDict
    /\ event_meta_by_id = EmptyDict
    /\ prompt_event_by_summary = EmptyDict
    /\ events_for_classification = <<>>
    /\ classifications = <<>>
    /\ BatchIdle
    /\ GatherIdle
    /\ AggIdle

Next ==
    \/ EnrichStart
    \/ \E geo \in GeoOutcomes : ScanEvent(geo)
    \/ EnrichEarlyReturn
    \/ \E results \in LocationResultLists(unique_events) \cup {<<>>} : EnrichCallReturns(results)
    \/ EnrichCallRaises
    \/ MergeResult
    \/ Propagate
    \/ \E loc \in geo_todo, geo \in GeoOutcomes : GeocodeTarget(loc, geo)
    \/ EnrichSave
    \/ EnrichSecondRun
    \/ ClassifyStart
    \/ ClassifyScanEvent
    \/ ClassifyBuild
    \/ \E results \in ClassificationResultLists(events_for_classification) :
          ClassifyCallReturns(results)
    \/ ClassifyCallRaises
    \/ ClassifyMergeResult
    \/ ClassifyPropagate
    \/ ClassifySave
    \/ ClassifySecondRun

Spec == Init /\ [][Next]_vars

(***************************************************************************)
(* Specification of one _call_openai_parallel invocation over NumBatches   *)
(* batches.                                                                *)
(***************************************************************************)
\* An event of its own location and title
BatchEvent(i) ==
    [id |-> IdTable[i], summary |-> [j \in 1..i |-> "a"],
     location_raw |-> [j \in 1..i |-> "a"], date |-> "2025-01-01", duration_minutes |-> 60]

\* The pipeline that passes parse_fn `fn` has reached its await of
\* _call_openai_parallel (line 206 / 357) over the events evs, from an empty
\* cache directory and without a geocoding credential
PipelineAwaiting(evs, fn) ==
    \E scanned \in {enrich_scan(IF fn = "location" THEN evs ELSE <<>>, EmptyLLMCache)} :
    \E built \in {classify_scan(IF fn = "classification" THEN evs ELSE <<>>, EmptyLLMCache)} :
    /\ events = evs
    /\ api_key = TRUE
    /\ maps_api_key = FALSE
    /\ disk_llm_cache = AbsentFile
    /\ disk_places_cache = AbsentPlacesFile
    /\ run = 1
    /\ pc = "call"
    /\ idx = Len(evs) + 1
    /\ llm_cache = EmptyLLMCache
    /\ places_cache = EmptyDict
    /\ enrichment_lookup = EmptyDict
    /\ seen_locations = scanned.seen
    /\ unique_events = scanned.unique
    /\ event_location_lookup = scanned.ell
    /\ geocode_targets = {}
    /\ geo_todo = {}
    /\ enrichments = <<>>
    /\ mi = 1
    /\ loaded_cache = EmptyLLMCache
    /\ llm_calls = 0
    /\ geo_calls = 0
    /\ first_lookup = EmptyDict
    /\ outcome = Running
    /\ summary_to_events = built.od
    /\ classification_by_id = EmptyDict
    /\ summary_for_event = built.sfe
    /\ event_meta_by_id = built.meta
    /\ prompt_event_by_summary = built.prompts
    /\ events_for_classification = built.items
    /\ classifications = <<>>

\* the list that the pipeline passes to _call_openai_parallel as `events`
PromptItems == IF parse_fn = "location" THEN unique_events ELSE events_for_classification

InitBatch ==
    /\ mode = "batch"
    /\ parse_fn \in {"location", "classification"}
    /\ ceiling \in 1..MAX_CONCURRENT_BATCHES
    /\ wrapper \in {"await", "asyncio.run"}
    /\ batch_size \in 1..2
    /\ PipelineAwaiting([i \in 1..((NumBatches - 1) * batch_size + 1) |-> BatchEvent(i)],
                        parse_fn)
    /\ batches = make_batches(PromptItems, batch_size)
    /\ BatchFresh
    /\ GatherIdle
    /\ AggIdle

\* _call_openai_parallel has returned its list to the pipeline, which runs to
\* its end without another await: lines 208-289 / 365-414.  A classification
\* that is no dict stops the merge loop at line 366 (str has no get).
PipelineResumes ==
    /\ mode = "batch"
    /\ pc = "merge"
    /\ parallel.state = "returned"
    /\ IF parse_fn = "location"
       THEN \E out \in {enrich_run(events, llm_cache, parallel.value)} :
              /\ enrichments' = parallel.value
              /\ enrichment_lookup' = out.lookup
              /\ llm_cache' = out.llm_cache
              /\ disk_llm_cache' = save_cache(out.llm_cache)
              /\ disk_places_cache' = save_cache(places_cache)
              /\ pc' = "done"
              /\ outcome' = Returned
              /\ UNCHANGED <<classifications, classification_by_id, friends, activity_stats>>
       ELSE IF \E m \in 1..Len(parallel.value) : "str" \in DOMAIN parallel.value[m]
       THEN /\ classifications' = parallel.value
            /\ pc' = "raised"
            /\ outcome' = Error("AttributeError", {}, 0, 0)
            /\ UNCHANGED <<enrichments, enrichment_lookup, llm_cache, diskVars,
                           classification_by_id, friends, activity_stats>>
       ELSE \E out \in {classify_run(events, llm_cache, EmptyDict, parallel.value)} :
              /\ classifications' = parallel.value
              /\ classification_by_id' = out.classification_by_id
              /\ llm_cache' = out.llm_cache
              /\ friends' = out.friends
              /\ activity_stats' = out.activity_stats
              /\ disk_llm_cache' = save_cache(out.llm_cache)
              /\ pc' = "done"
              /\ outcome' = Returned
              /\ UNCHANGED <<enrichments, enrichment_lookup, disk_places_cache>>
    /\ UNCHANGED <<inputVars, run, idx, places_cache, seen_locations, unique_events,
                   event_location_lookup, geocode_targets, geo_todo, mi, loaded_cache,
                   llm_calls, geo_calls, first_lookup, summary_to_events, summary_for_event,
                   event_meta_by_id, prompt_event_by_summary, events_for_classification,
                   email_friends, suggestions, batchVars, gatherVars>>

NextBatch ==
    \/ PipelineResumes
    \/ \E b \in Batches : Acquire(b)
    \/ \E b \in Batches : \E resp \in Responses(b) : CallReturns(b, resp)
    \/ \E b \in Batches : \E e \in RaisedByCall(b, attempt[b]) : CallRaises(b, e)
    \/ \E b \in Batches : SleepEnds(b)

SpecBatch == InitBatch /\ [][NextBatch]_vars

\* The assumptions under which the batches make progress: the event loop runs
\* a task that can run (a batch at a free gate, the pipeline after its await),
\* every resolver call ends, by a response or by an error, and every sleep
\* ends.  Each of these steps changes where a batch or the pipeline stands.
position == <<pc, batch_pc, attempt>>
\* the step of PipelineResumes as seen on pc: the pipeline leaves line 206 / 357
PipelineLeavesMerge ==
    /\ mode = "batch"
    /\ pc = "merge"
    /\ parallel.state = "returned"
    /\ pc' \in {"done", "raised"}
BatchFairness ==
    /\ WF_pc(PipelineLeavesMerge)
    /\ \A b \in Batches :
          /\ WF_position(Acquire(b))
          /\ WF_position((\E resp \in Responses(b) : CallReturns(b, resp))
                          \/ (\E e \in RaisedByCall(b, attempt[b]) : CallRaises(b, e)))
          /\ WF_position(SleepEnds(b))
SpecBatchFair == InitBatch /\ [][NextBatch]_vars /\ BatchFairness

(***************************************************************************)
(* Specification of the first lines of _call_openai_parallel: the check    *)
(* for an empty list and the partition into batches, for a list of up to   *)
(* MaxItems prompt items and a batch size of up to MaxBatchSize.           *)
(***************************************************************************)
\* the lists of distinct indices into IdTable, of length 0..MaxItems
ItemOrders ==
    UNION {{o \in [1..n -> 1..MaxItems] : \A i, j \in 1..n : i # j => o[i] # o[j]} :
              n \in 0..MaxItems}

InitPartition ==
    /\ mode = "partition"
    /\ parse_fn \in {"location", "classification"}
    /\ \E o \in ItemOrders :
          PipelineAwaiting([i \in 1..Len(o) |-> BatchEvent(o[i])], parse_fn)
    /\ ceiling = MAX_CONCURRENT_BATCHES
    /\ wrapper = "await"
    /\ batch_size \in 1..MaxBatchSize
    /\ batches = <<>>
    /\ BatchFresh
    /\ GatherIdle
    /\ AggIdle

\* lines 592-596: `if not events: return []`, else the batches are built
Partition ==
    /\ mode = "partition"
    /\ pc = "call"
    /\ IF PromptItems = <<>>
       THEN /\ parallel' = [state |-> "returned", value |-> <<>>, error |-> NoError]
            /\ pc' = "merge"
            /\ UNCHANGED batches
       ELSE /\ batches' = make_batches(PromptItems, batch_size)
            /\ pc' = "gather"
            /\ UNCHANGED parallel
    /\ UNCHANGED <<parse_fn, batch_pc, attempt, last_error, sleeps, calls, malformed,
                   batch_result, ceiling, semaphore, wrapper, batch_size, completed>>
    /\ UNCHANGED <<outcome, pipelineRest>>

NextPartition == Partition

SpecPartition == InitPartition /\ [][NextPartition]_vars

(***************************************************************************)
(* Specification of the aggregations: classify_solo_events has built       *)
(* classification_by_id; it aggregates (lines 406-414) and the CLI asks    *)
(* for merge suggestions (cli.py 135).                                     *)
(***************************************************************************)

\* What a cached classification says of an event: the resolver's type with
\* the fields it sends along.  Names come padded, in other case, twice in one
\* list, empty and blank.
CachedClassifications ==
    {[type |-> "SOCIAL", names |-> <<<<"M","a","s","h","a">>>>],
     [type |-> "SOCIAL", names |-> << <<" ","m","a","s","h","a"," ">>, <<"D","a","n">> >>],
     [type |-> "SOCIAL", names |-> << <<"M","a","s","h","a">>, <<"m","a","s","h","a">> >>],
     [type |-> "SOCIAL", names |-> << <<>>, <<" ">> >>],
     [type |-> "SOCIAL", names |-> << <<"D","a","n">> >>],
     [type |-> "SOCIAL"],
     [type |-> "ACTIVITY", category |-> "fitness", activity_type |-> "yoga", venue |-> "Vital"],
     [type |-> "ACTIVITY", category |-> "fitness", activity_type |-> "yoga", venue |-> None],
     [type |-> "ACTIVITY", category |-> "fitness", activity_type |-> "gym"],
     [type |-> "ACTIVITY"],
     [type |-> "OTHER"]}

\* event_ids: the keys of summary_for_event, in event order
AggEventIds == [i \in 1..MaxEvents |-> IdTable[i]]

\* the payload of the i-th event: the earlier the event, the longer it lasted
AggPayload(i) ==
    [event_id |-> IdTable[i], summary |-> SumGym, date |-> "2025-01-01",
     hours |-> 10 * (MaxEvents + 1 - i), location_raw |-> NoneStr]
\* the hours of the events: the earlier the longer, or the later the longer
AggHours == {[i \in 1..MaxEvents |-> AggPayload(i).hours],
             [i \in 1..MaxEvents |-> 10 * i]}

\* classification_by_id as lines 339-346, 373-380 and 390-397 build it, over
\* every choice of the classified events and of their cached records
ClassificationsById ==
    UNION {{[id \in {IdTable[i] : i \in ids} |->
                LET i == CHOOSE k \in ids : IdTable[k] = id
                IN  ClassificationEntry(id, pick[i],
                                        [AggPayload(i) EXCEPT !.hours = pick_hours[i]])]
            : pick \in [ids -> CachedClassifications], pick_hours \in AggHours}
           : ids \in SUBSET (1..MaxEvents)}

\* enrichment_lookup: empty (or None), or holding a venue for the first event
AggLookups == {EmptyDict, [id \in {IdTable[1]} |-> LLMResult(id, 1)]}

\* FriendStats as stats.py builds them from attendees (one per email
\* address): email and display name
EmailFriends ==
    LET daniel == <<"d","a","n","i","e","l",".","s","m","i","t","h","@",
                    "e","x","a","m","p","l","e",".","c","o","m">>
        F(email, display_name) == [email |-> email, display_name |-> display_name]
    IN  {F(daniel, <<"D","a","n"," ","S","m","i","t","h">>),
         F(daniel, <<"D","a","n","i","e","l"," ","S",".">>),
         F(<<"d","a","n","i","e","l",".","s","m","i","t","h","@","x",".","i","o">>,
           <<"D","."," ","S","m","i","t","h">>),
         F(daniel, NoneStr),
         F(<<"M","a","s","h","a","@","x",".","i","o">>, <<"M",".">>),
         F(<<"m","a","@","x",".","i","o">>, <<"M","a","s","h","a">>),
         F(<<"b","o","b","@","x",".","i","o">>, <<"B","o","b">>)}
EmailFriendLists ==
    {l \in UNION {[1..n -> EmailFriends] : n \in 0..2} :
        \A i, j \in 1..Len(l) : i # j => l[i].email # l[j].email}

InitAgg ==
    /\ mode = "aggregate"
    /\ pc = "aggregate"
    /\ classification_by_id \in ClassificationsById
    /\ enrichment_lookup \in AggLookups
    /\ email_friends \in EmailFriendLists
    /\ friends = <<>>
    /\ activity_stats = EmptyDict
    /\ suggestions = <<>>
    /\ events = <<>>
    /\ api_key = TRUE
    /\ maps_api_key = FALSE
    /\ disk_llm_cache = AbsentFile
    /\ disk_places_cache = AbsentPlacesFile
    /\ run = 1
    /\ idx = 1
    /\ llm_cache = EmptyLLMCache
    /\ places_cache = EmptyDict
    /\ seen_locations = EmptyDict
    /\ unique_events = <<>>
    /\ event_location_lookup = EmptyDict
    /\ geocode_targets = {}
    /\ geo_todo = {}
    /\ enrichments = <<>>
    /\ mi = 1
    /\ loaded_cache = EmptyLLMCache
    /\ llm_calls = 0
    /\ geo_calls = 0
    /\ first_lookup = EmptyDict
    /\ outcome = Running
    /\ summary_to_events = <<>>
    /\ summary_for_event = EmptyDict
    /\ event_meta_by_id = EmptyDict
    /\ prompt_event_by_summary = EmptyDict
    /\ events_for_classification = <<>>
    /\ classifications = <<>>
    /\ BatchIdle
    /\ GatherIdle

\* llm_enrich.py 406-414: both aggregations over the classified events
Aggregate ==
    /\ mode = "aggregate"
    /\ pc = "aggregate"
    /\ friends' = aggregate_inferred_friends(AggEventIds, classification_by_id,
                                             enrichment_lookup)
    /\ activity_stats' = aggregate_activity_stats(AggEventIds, classification_by_id,
                                                  enrichment_lookup)
    /\ pc' = "merge"
    /\ UNCHANGED <<email_friends, suggestions>>
    /\ UNCHANGED <<idx, llm_cache, places_cache, enrichment_lookup, seen_locations,
                   unique_events, event_location_lookup, geocode_targets, geo_todo,
                   enrichments, mi, loaded_cache, llm_calls, geo_calls, outcome,
                   first_lookup, run>>
    /\ UNCHANGED <<inputVars, diskVars, classifyVars, batchVars, gatherVars>>

\* cli.py 135: suggest_merges(inferred_friends, friend_stats)
SuggestMerges ==
    /\ mode = "aggregate"
    /\ pc = "merge"
    /\ suggestions' = suggest_merges(friends, email_friends)
    /\ pc' = "done"
    /\ UNCHANGED <<friends, activity_stats, email_friends>>
    /\ UNCHANGED <<idx, llm_cache, places_cache, enrichment_lookup, seen_locations,
                   unique_events, event_location_lookup, geocode_targets, geo_todo,
                   enrichments, mi, loaded_cache, llm_calls, geo_calls, outcome,
                   first_lookup, run>>
    /\ UNCHANGED <<inputVars, diskVars, classifyVars, batchVars, gatherVars>>

NextAgg == Aggregate \/ SuggestMerges

SpecAgg == InitAgg /\ [][NextAgg]_vars

(***************************************************************************)
(* Specification of the aggregations over a longer list of events, most of *)
(* them ACTIVITY: up to MaxActivities events, whose venues and activity    *)
(* types repeat in every pattern, in one or two categories, with at most   *)
(* one event that is OTHER, SOCIAL or not classified.                      *)
(***************************************************************************)
ActivityTypeTable ==
    <<"yoga", "gym", "running", "swimming", "climbing", "cycling", "pilates", "spa", "sauna">>

\* the lists of n indices in which each index is at most one more than the
\* largest before it: every pattern of repetition, each under one naming
RECURSIVE Patterns(_)
Patterns(n) ==
    IF n = 0 THEN {<<>>}
    ELSE UNION {{Append(f, k) : k \in 1..(1 + Max({0} \cup {f[i] : i \in 1..(n - 1)}))}
                   : f \in Patterns(n - 1)}

\* the i-th of n events: its venue follows the pattern, its activity type the
\* pattern read backwards; the first `split` events are fitness, the others
\* wellness; the later the event, the longer it lasted
ActivityClassification(pattern, split, i) ==
    [type |-> "ACTIVITY",
     category |-> IF i <= split THEN "fitness" ELSE "wellness",
     activity_type |-> ActivityTypeTable[pattern[Len(pattern) + 1 - i]],
     venue |-> VenueTable[pattern[i]],
     names |-> <<<<"M","a","s","h","a">>>>]

\* the event at position `at` (none when at = 0) is classified as `kind` says
\* with the same fields, or has no classification
ActivityInputs(n) ==
    {[id \in {IdTable[i] : i \in (1..n) \ (IF kind = "unclassified" THEN {at} ELSE {})} |->
        LET i == CHOOSE k \in 1..n : IdTable[k] = id
        IN  ClassificationEntry(id,
                [ActivityClassification(pattern, split, i)
                    EXCEPT !.type = IF i = at THEN kind ELSE @],
                [event_id |-> id, summary |-> SumGym, date |-> "2025-01-01",
                 hours |-> 10 * i, location_raw |-> NoneStr])]
     : pattern \in Patterns(n), split \in {1, n}, at \in {0, 1, n},
       kind \in {"OTHER", "SOCIAL", "unclassified"}}

InitActivity ==
    /\ mode = "activity"
    /\ pc = "aggregate"
    /\ \E n \in 0..MaxActivities :
          /\ events = [i \in 1..n |->
                         [id |-> IdTable[i], summary |-> SumGym, location_raw |-> NoneStr,
                          date |-> "2025-01-01", duration_minutes |-> 60 * i]]
          /\ classification_by_id \in ActivityInputs(n)
    /\ enrichment_lookup = EmptyDict
    /\ api_key = TRUE
    /\ maps_api_key = FALSE
    /\ disk_llm_cache = AbsentFile
    /\ disk_places_cache = AbsentPlacesFile
    /\ run = 1
    /\ idx = 1
    /\ llm_cache = EmptyLLMCache
    /\ places_cache = EmptyDict
    /\ seen_locations = EmptyDict
    /\ unique_events = <<>>
    /\ event_location_lookup = EmptyDict
    /\ geocode_targets = {}
    /\ geo_todo = {}
    /\ enrichments = <<>>
    /\ mi = 1
    /\ loaded_cache = EmptyLLMCache
    /\ llm_calls = 0
    /\ geo_calls = 0
    /\ first_lookup = EmptyDict
    /\ outcome = Running
    /\ summary_to_events = <<>>
    /\ summary_for_event = EmptyDict
    /\ event_meta_by_id = EmptyDict
    /\ prompt_event_by_summary = EmptyDict
    /\ events_for_classification = <<>>
    /\ classifications = <<>>
    /\ BatchIdle
    /\ GatherIdle
    /\ AggIdle

\* llm_enrich.py 401-414: both aggregations over the ids of the events
AggregateEvents ==
    /\ mode = "activity"
    /\ pc = "aggregate"
    /\ \E event_ids \in {[i \in 1..Len(events) |-> events[i].id]} :
          /\ friends' = aggregate_inferred_friends(event_ids, classification_by_id,
                                                   enrichment_lookup)
          /\ activity_stats' = aggregate_activity_stats(event_ids, classification_by_id,
                                                        enrichment_lookup)
    /\ pc' = "done"
    /\ UNCHANGED <<email_friends, suggestions>>
    /\ UNCHANGED <<idx, llm_cache, places_cache, enrichment_lookup, seen_locations,
                   unique_events, event_location_lookup, geocode_targets, geo_todo,
                   enrichments, mi, loaded_cache, llm_calls, geo_calls, outcome,
                   first_lookup, run>>
    /\ UNCHANGED <<inputVars, diskVars, classifyVars, batchVars, gatherVars>>

NextActivity == AggregateEvents

SpecActivity == InitActivity /\ [][NextActivity]_vars

(***************************************************************************)
(* enrich_and_classify_all: the two pipelines as tasks of one              *)
(* asyncio.gather, without a geocoding credential.                         *)
(*                                                                         *)
(* A coroutine runs without interruption from one await to the next, and   *)
(* each pipeline awaits once, at _call_openai_parallel: enrich_all_events  *)
(* runs from its start to that await (or to its early return), then        *)
(* classify_solo_events does, and each resumes when its call has returned, *)
(* in either order, and runs to its end.                                   *)
(***************************************************************************)

\* lines 729-735: the enrichment of each friend event is patched in
patch_friends(inferred, lookup) ==
    [f \in 1..Len(inferred) |->
        [inferred[f] EXCEPT !.events =
            [k \in 1..Len(@) |->
                IF Has(lookup, @[k].id)
                THEN [@[k] EXCEPT !.venue_name = Or(@, lookup[inferred[f].events[k].id].venue_name),
                                  !.neighborhood = lookup[inferred[f].events[k].id].neighborhood,
                                  !.cuisine = lookup[inferred[f].events[k].id].cuisine]
                ELSE @[k]]]]

\* A classification of the prompted event as an activity without a venue
ActivityResult(id) ==
    [event_id |-> id, type |-> "ACTIVITY", category |-> "fitness", activity_type |-> "yoga"]

\* enrich_all_events starts: lines 140-202, up to the await of line 206 or to
\* the early return, which saves
EnrichTaskStart ==
    /\ mode = "gather"
    /\ task_pc.enrich = "ready"
    /\ llm_cache' = load_llm_cache(disk_llm_cache)
    /\ places_cache' = load_places_cache(disk_places_cache)
    /\ \E out \in {enrich_run(events, load_llm_cache(disk_llm_cache), <<>>)} :
           /\ unique_events' = out.unique_events
           /\ IF out.unique_events = <<>>
              THEN /\ enrichment_lookup' = out.lookup
                   /\ disk_llm_cache' = save_cache(llm_cache')
                   /\ disk_places_cache' = save_cache(places_cache')
                   /\ task_pc' = [task_pc EXCEPT !.enrich = "done"]
              ELSE /\ task_pc' = [task_pc EXCEPT !.enrich = "awaiting"]
                   /\ UNCHANGED <<enrichment_lookup, diskVars>>
    /\ UNCHANGED <<pc, idx, seen_locations, event_location_lookup, geocode_targets, geo_todo,
                   enrichments, mi, loaded_cache, llm_calls, geo_calls, outcome, first_lookup,
                   run, classify_cache, gathered>>
    /\ UNCHANGED <<inputVars, classifyVars, batchVars, aggVars>>

\* classify_solo_events starts once enrich_all_events has yielded: lines
\* 298-353, up to the await of line 357, or to its return when nothing is
\* left to ask
ClassifyTaskStart ==
    /\ mode = "gather"
    /\ task_pc.enrich # "ready"
    /\ task_pc.classify = "ready"
    /\ classify_cache' = load_llm_cache(disk_llm_cache)
    /\ \E out \in {classify_run(events, load_llm_cache(disk_llm_cache), EmptyDict, <<>>)} :
           /\ events_for_classification' = out.events_for_classification
           /\ IF out.events_for_classification = <<>>
              THEN /\ classification_by_id' = out.classification_by_id
                   /\ friends' = out.friends
                   /\ activity_stats' = out.activity_stats
                   /\ disk_llm_cache' = save_cache(classify_cache')
                   /\ task_pc' = [task_pc EXCEPT !.classify = "done"]
              ELSE /\ task_pc' = [task_pc EXCEPT !.classify = "awaiting"]
                   /\ UNCHANGED <<classification_by_id, friends, activity_stats,
                                  disk_llm_cache>>
    /\ UNCHANGED <<summary_to_events, summary_for_event, event_meta_by_id,
                   prompt_event_by_summary, classifications, email_friends, suggestions,
                   gathered, disk_places_cache>>
    /\ UNCHANGED <<inputVars, enrichVars, run, first_lookup, batchVars>>

\* The call of enrich_all_events has returned: lines 208-289
EnrichTaskReturns(results) ==
    /\ mode = "gather"
    /\ task_pc.enrich = "awaiting"
    /\ task_pc.classify # "ready"
    /\ results \in LocationResultLists(unique_events)
    /\ enrichments' = results
    /\ \E out \in {enrich_run(events, llm_cache, results)} :
           /\ enrichment_lookup' = out.lookup
           /\ llm_cache' = out.llm_cache
           /\ disk_llm_cache' = save_cache(out.llm_cache)
           /\ disk_places_cache' = save_cache(places_cache)
    /\ task_pc' = [task_pc EXCEPT !.enrich = "done"]
    /\ UNCHANGED <<pc, idx, places_cache, seen_locations, unique_events,
                   event_location_lookup, geocode_targets, geo_todo, mi, loaded_cache,
                   llm_calls, geo_calls, outcome, first_lookup, run, classify_cache,
                   gathered>>
    /\ UNCHANGED <<inputVars, classifyVars, batchVars, aggVars>>

\* The call of classify_solo_events has returned: lines 363-414
ClassifyTaskReturns(results) ==
    /\ mode = "gather"
    /\ task_pc.classify = "awaiting"
    /\ results \in [1..Len(events_for_classification) ->
                       UNION {{SocialResult(id), ActivityResult(id)} : id \in EventIds}]
    /\ \A j \in 1..Len(results) : results[j].event_id = events_for_classification[j].event_id
    /\ classifications' = results
    /\ \E out \in {classify_run(events, classify_cache, EmptyDict, results)} :
           /\ classification_by_id' = out.classification_by_id
           /\ classify_cache' = out.llm_cache
           /\ friends' = out.friends
           /\ activity_stats' = out.activity_stats
           /\ disk_llm_cache' = save_cache(out.llm_cache)
    /\ task_pc' = [task_pc EXCEPT !.classify = "done"]
    /\ UNCHANGED <<summary_to_events, summary_for_event, event_meta_by_id,
                   prompt_event_by_summary, events_for_classification, email_friends,
                   suggestions, gathered, disk_places_cache>>
    /\ UNCHANGED <<inputVars, enrichVars, run, first_lookup, batchVars>>

\* lines 722-725 and 749, mutated: the failure of one task ends the other in
\* every case, as under asyncio.TaskGroup
LoopCloses_Always(w) == TRUE
\* line 749: asyncio.run(enrich_and_classify_all(...)) closes its loop when the
\* coroutine has ended and cancels the tasks still pending; a caller that
\* awaits enrich_and_classify_all in its own loop leaves them running
LoopCloses(w) == w = "asyncio.run"

\* What the resolver call of a pipeline raises when its batch has failed
ResolverFailure == [error |-> "APIError", text |-> "resolver failure"]

\* The call awaited by pipeline k raises and the exception leaves the pipeline
\* (lines 206 and 357 are in no try block).  asyncio.gather (lines 722-725,
\* return_exceptions left False) raises the first exception to
\* enrich_and_classify_all, which has no handler, and cancels nothing.
TaskRaises(k, other) ==
    /\ mode = "gather"
    /\ task_pc[k] = "awaiting"
    /\ task_pc[other] # "ready"
    /\ task_pc' = [task_pc EXCEPT
                     ![k] = "raised",
                     ![other] = IF pc = "start" /\ LoopCloses(wrapper) /\ @ = "awaiting"
                                THEN "cancelled" ELSE @]
    /\ pc' = IF pc = "start" THEN "raised" ELSE pc
    /\ outcome' = IF pc = "start" THEN ResolverFailure ELSE outcome
    /\ UNCHANGED <<idx, llm_cache, places_cache, enrichment_lookup, seen_locations,
                   unique_events, event_location_lookup, geocode_targets, geo_todo,
                   enrichments, mi, loaded_cache, llm_calls, geo_calls, first_lookup, run,
                   classify_cache, gathered>>
    /\ UNCHANGED <<inputVars, diskVars, classifyVars, batchVars, aggVars>>

\* line 206 raises in enrich_all_events
EnrichTaskRaises == TaskRaises("enrich", "classify")

\* line 357 raises in classify_solo_events
ClassifyTaskRaises == TaskRaises("classify", "enrich")

\* asyncio.gather returns both results; lines 729-737
GatherReturns ==
    /\ mode = "gather"
    /\ task_pc = [enrich |-> "done", classify |-> "done"]
    /\ pc = "start"
    /\ pc' = "done"
    /\ gathered' = <<[enrichment_lookup |-> enrichment_lookup,
                      inferred_friends |-> patch_friends(friends, enrichment_lookup),
                      activity_stats |-> activity_stats]>>
    /\ UNCHANGED <<idx, llm_cache, places_cache, enrichment_lookup, seen_locations,
                   unique_events, event_location_lookup, geocode_targets, geo_todo,
                   enrichments, mi, loaded_cache, llm_calls, geo_calls, outcome,
                   first_lookup, run, task_pc, classify_cache>>
    /\ UNCHANGED <<inputVars, diskVars, classifyVars, batchVars, aggVars>>

\* events with a location and a title each, or without
GatherEvents ==
    EventLists([id : EventIds,
                summary : {NoneStr, SumGym, <<"Y","o","g","a">>},
                location_raw : {NoneStr, <<"C","a","f","e">>, <<" ","C","a","f","e"," ">>,
                                <<"B","a","r">>},
                date : {"2025-01-01"}, duration_minutes : {60}])

InitGather ==
    /\ mode = "gather"
    /\ events \in GatherEvents
    /\ api_key = TRUE
    /\ maps_api_key = FALSE
    /\ disk_llm_cache = AbsentFile
    /\ disk_places_cache = AbsentPlacesFile
    /\ run = 1
    /\ pc = "start"
    /\ idx = 1
    /\ llm_cache = EmptyLLMCache
    /\ places_cache = EmptyDict
    /\ enrichment_lookup = EmptyDict
    /\ seen_locations = EmptyDict
    /\ unique_events = <<>>
    /\ event_location_lookup = EmptyDict
    /\ geocode_targets = {}
    /\ geo_todo = {}
    /\ enrichments = <<>>
    /\ mi = 1
    /\ loaded_cache = EmptyLLMCache
    /\ llm_calls = 0
    /\ geo_calls = 0
    /\ first_lookup = EmptyDict
    /\ outcome = Running
    /\ summary_to_events = <<>>
    /\ classification_by_id = EmptyDict
    /\ summary_for_event = EmptyDict
    /\ event_meta_by_id = EmptyDict
    /\ prompt_event_by_summary = EmptyDict
    /\ events_for_classification = <<>>
    /\ classifications = <<>>
    /\ parse_fn = "location"
    /\ ceiling = MAX_CONCURRENT_BATCHES
    /\ wrapper \in {"await", "asyncio.run"}
    /\ batch_size = BATCH_SIZE
    /\ batches = <<>>
    /\ BatchFresh
    /\ GatherIdle
    /\ AggIdle

NextGather ==
    \/ EnrichTaskStart
    \/ ClassifyTaskStart
    \/ \E results \in LocationResultLists(unique_events) : EnrichTaskReturns(results)
    \/ \E results \in [1..Len(events_for_classification) ->
                         UNION {{SocialResult(id), ActivityResult(id)} : id \in EventIds}] :
          ClassifyTaskReturns(results)
    \/ EnrichTaskRaises
    \/ ClassifyTaskRaises
    \/ GatherReturns

SpecGather == InitGather /\ [][NextGather]_vars

(***************************************************************************)
(* Properties of the pipelines (specification Spec).                       *)
(***************************************************************************)
\* The dedup key of an event: its trimmed location / its lower-cased trimmed
\* summary; <<>> when the event has none.
LocKey(e) == IF TruthyStr(e.location_raw) THEN Strip(e.location_raw) ELSE <<>>
SumKey(e) == IF TruthyStr(e.summary) THEN Strip(Lower(e.summary)) ELSE <<>>
EventOf(id) == events[CHOOSE i \in 1..Len(events) : events[i].id = id]
LocKeys == {LocKey(events[i]) : i \in 1..Len(events)} \ {<<>>}
SumKeys == {SumKey(events[i]) : i \in 1..Len(events)} \ {<<>>}
\* the id of the first event, in input order, that has the key
FirstLocId(k) ==
    events[CHOOSE i \in 1..Len(events) :
              LocKey(events[i]) = k /\ \A j \in 1..(i - 1) : LocKey(events[j]) # k].id
FirstSumId(k) ==
    events[CHOOSE i \in 1..Len(events) :
              SumKey(events[i]) = k /\ \A j \in 1..(i - 1) : SumKey(events[j]) # k].id
\* the prompt items that stand for a key
LocItemsFor(k) ==
    {j \in 1..Len(unique_events) : LocKey(EventOf(unique_events[j].event_id)) = k}
SumItemsFor(k) ==
    {j \in 1..Len(events_for_classification) :
        SumKey(EventOf(events_for_classification[j].event_id)) = k}
\* enrich_all_events has just handed unique_events to _call_openai_parallel
AtEnrichCall == mode = "enrich" /\ pc \in {"merge", "raised"} /\ mi = 1 /\ llm_calls > 0
\* classify_solo_events has built events_for_classification
AtClassifyCall ==
    /\ mode = "classify"
    /\ pc \in {"call", "merge", "save", "done", "raised"}
    /\ pc = "raised" => llm_calls > 0
\* the resolver answered with records of its own making only for ids it chose
NoStray(results) == \A m \in 1..Len(results) : results[m].venue_name # "Stray"
DescriptiveFields == {"venue_name", "neighborhood", "city", "cuisine"}
CoordinateFields == {"latitude", "longitude"}

\* C1: one representative per uncached key.  In enrich_all_events and in
\* classify_solo_events, for every non-empty dedup key that N >= 1 input events
\* share and that is uncached (not in the cache as loaded and, for a location,
\* not satisfied by the maps-link lookup when its first event was scanned), the
\* prompt list handed to the resolver holds exactly one item for the key, and
\* the item carries the id of the first event with that key.
C1_OneRepresentative ==
    /\ AtEnrichCall =>
         \A k \in LocKeys :
            (~Has(loaded_cache.locations_by_location, k)
               /\ ~Has(enrichment_lookup, FirstLocId(k)))
            => /\ Cardinality(LocItemsFor(k)) = 1
               /\ \A j \in LocItemsFor(k) : unique_events[j].event_id = FirstLocId(k)
    /\ AtClassifyCall =>
         \A k \in SumKeys :
            ~Has(loaded_cache.classification_by_summary, k)
            => /\ Cardinality(SumItemsFor(k)) = 1
               /\ \A j \in SumItemsFor(k) :
                     events_for_classification[j].event_id = FirstSumId(k)
\* Two events share an uncached location through different raw strings and the
\* prompt list has been handed over with one item, that of the first event.
C1_Witness ==
    /\ AtEnrichCall
    /\ Len(events) >= 2
    /\ events[1].location_raw # events[2].location_raw
    /\ LocKey(events[1]) = LocKey(events[2])
    /\ LocKey(events[1]) # <<>>
    /\ Len(unique_events) = 1
    /\ unique_events[1].event_id = events[1].id

\* C2: fan-out.  When enrich_all_events has returned and the resolver returned
\* a record for the representative of a location key, every event with that key
\* has a lookup entry with the representative's venue, neighborhood, city and
\* cuisine, and no event with another key carries that record's venue.
C2_FanOut ==
    (mode = "enrich" /\ pc = "done" /\ NoStray(enrichments)) =>
      \A m \in 1..Len(enrichments) :
        \A j \in 1..Len(unique_events) :
          enrichments[m].event_id = unique_events[j].event_id =>
            LET rep == unique_events[j].event_id
                k == LocKey(EventOf(rep))
            IN  \A i \in 1..Len(events) :
                  IF LocKey(events[i]) = k
                  THEN /\ Has(enrichment_lookup, events[i].id)
                       /\ \A f \in DescriptiveFields :
                             enrichment_lookup[events[i].id][f] = enrichment_lookup[rep][f]
                  ELSE ~(/\ Has(enrichment_lookup, events[i].id)
                         /\ enrichment_lookup[events[i].id].venue_name
                               = enrichments[m].venue_name)


\* every dedup key of the input events is in the cache this run loaded (a
\* summary of blanks has the key "", which classify_solo_events groups by too)
AllKeysCached ==
    /\ pc # "start"
    /\ IF mode = "enrich"
       THEN \A k \in LocKeys : Has(loaded_cache.locations_by_location, k)
       ELSE \A i \in 1..Len(events) :
               TruthyStr(events[i].summary)
                  => Has(loaded_cache.classification_by_summary, Strip(Lower(events[i].summary)))
\* the input keys whose loaded location record lacks a coordinate
KeysLackingCoordinates ==
    {k \in LocKeys :
        /\ Has(loaded_cache.locations_by_location, k)
        /\ \E f \in CoordinateFields : loaded_cache.locations_by_location[k][f] = None}

C4_IdempotentLookup ==
    (/\ mode = "enrich" /\ run = 2 /\ pc = "done"
     /\ ~maps_api_key
     /\ \A id \in DOMAIN first_lookup : first_lookup[id].venue_name # "Stray"
     /\ \A k \in LocKeys : Has(loaded_cache.locations_by_location, k))
    => enrichment_lookup = first_lookup

\* C5: the cache merge never regresses.  Within a run of enrich_all_events, no
\* step leaves a venue_name, neighborhood, city or cuisine empty that was
\* non-empty in the cache record of a key, and a coordinate changes only to a
\* non-null value (here with a resolver that answered only what it was asked).
C5_NeverRegresses ==
    [][(mode = "enrich" /\ pc \in {"scan", "merge", "geocode"} /\ NoStray(enrichments)) =>
         \A k \in DOMAIN llm_cache.locations_by_location :
            /\ k \in DOMAIN llm_cache'.locations_by_location
            /\ \A f \in DescriptiveFields :
                  Truthy(llm_cache.locations_by_location[k][f])
                     => Truthy(llm_cache'.locations_by_location[k][f])
            /\ \A f \in CoordinateFields :
                  llm_cache'.locations_by_location[k][f] # llm_cache.locations_by_location[k][f]
                     => llm_cache'.locations_by_location[k][f] # None]_vars


(***************************************************************************)
(* Properties of _call_openai_parallel (specification SpecBatch).          *)
(***************************************************************************)
\* the batches between acquiring and releasing the admission gate
InCallPhase == {b \in Batches : batch_pc[b] \in {"calling", "sleeping"}}
\* the error is classified as rate-limit or as timeout
Classified(e) == e.marks \cap {"429", "rate_limit", "timeout", "timed out"} # {}
BackoffSchedule == <<5, 10, 20, 40, 80>>
\* the batch went through every attempt, each failing transiently
Exhausted(b) == batch_pc[b] \in {"returned", "raised"} /\ Len(sleeps[b]) = 5

\* C6: concurrency ceiling.  In every reachable state of one
\* _call_openai_parallel invocation with ceiling C, at most C batches are in
\* their call phase, whatever the order of completions, failures and retries.
C6_Ceiling == mode = "batch" => Cardinality(InCallPhase) <= ceiling
\* The gate is full, one of the admitted batches is retrying after a failure,
\* and another batch waits for a slot.
C6_Witness ==
    /\ mode = "batch"
    /\ Cardinality(InCallPhase) = ceiling
    /\ \E b \in InCallPhase : sleeps[b] # <<>>
    /\ \E b \in Batches : batch_pc[b] = "waiting"

\* C7: backoff schedule.  The sleeps of a batch are, in order, 5, 10, 20, 40,
\* 80 seconds (5 * 2^attempt), one after each transient failure; a batch that
\* fails transiently twice and then succeeds has slept 5 then 10 and made
\* exactly 3 calls; no batch makes more than 5 calls.
C7_Backoff ==
    mode = "batch" =>
      \A b \in Batches :
         /\ Len(sleeps[b]) <= 5
         /\ \A i \in 1..Len(sleeps[b]) : sleeps[b][i] = BackoffSchedule[i]
         /\ calls[b] <= 5
         /\ Len(sleeps[b]) <= calls[b]
         /\ calls[b] <= Len(sleeps[b]) + 1
         /\ (batch_pc[b] = "returned" /\ Len(sleeps[b]) = 2)
               => sleeps[b] = <<5, 10>> /\ calls[b] = 3
\* A batch failed transiently twice, slept 5 then 10, and its third call
\* returned results.
C7_Witness ==
    /\ mode = "batch"
    /\ \E b \in Batches :
          /\ batch_pc[b] = "returned"
          /\ batch_result[b].value # <<>>
          /\ sleeps[b] = <<5, 10>>
          /\ calls[b] = 3

\* C8: parse-failure resilience.  A batch whose resolver response is not valid
\* structured data of the expected shape returns an empty list, without raising
\* and without retrying, and once every batch has returned
\* _call_openai_parallel returns the other batches' results.
C8_ParseResilience ==
    mode = "batch" =>
      /\ \A b \in Batches :
            malformed[b] => /\ batch_pc[b] = "returned"
                            /\ ~batch_result[b].is_none
                            /\ batch_result[b].value = <<>>
      /\ ((\E b \in Batches : malformed[b]) /\ (\A b \in Batches : batch_pc[b] = "returned"))
            => /\ parallel.state = "returned"
               /\ \A b \in Batches :
                     \A i \in 1..Len(batch_result[b].value) :
                        \E n \in 1..Len(parallel.value) :
                           parallel.value[n] = batch_result[b].value[i]

\* C9: permanent errors are not retried.  When the last error of a batch is
\* classified neither as rate-limit nor as timeout, the batch has raised that
\* same error, and has made no call and no sleep after the attempt that raised.
C9_PermanentNotRetried ==
    mode = "batch" =>
      \A b \in Batches :
         (last_error[b] # NoError /\ ~Classified(last_error[b]))
         => /\ batch_pc[b] = "raised"
            /\ batch_result[b].kind = "raise"
            /\ batch_result[b].error = last_error[b]
            /\ calls[b] = last_error[b].attempt + 1
            /\ Len(sleeps[b]) = last_error[b].attempt
\* After one transient failure and its sleep, the second call of a batch was
\* refused for its credentials and the batch raised at once.
C9_Witness ==
    /\ mode = "batch"
    /\ \E b \in Batches :
          /\ batch_pc[b] = "raised"
          /\ last_error[b].type = "AuthenticationError"
          /\ last_error[b].attempt = 1
          /\ sleeps[b] = <<5>>
          /\ calls[b] = 2

C11_PartialResultsPersisted ==
    (/\ mode = "batch"
     /\ pc = "raised"
     /\ \A b \in Batches : batch_pc[b] \in {"returned", "raised"}
     /\ \A b \in Batches : ~malformed[b]
     /\ \E b \in Batches : batch_pc[b] = "raised"
     /\ \E b \in Batches : batch_pc[b] = "returned" /\ batch_result[b].value # <<>>)
    => /\ disk_llm_cache.state = "ok"
       /\ DOMAIN (IF parse_fn = "location"
                  THEN disk_llm_cache.data.locations_by_location
                  ELSE disk_llm_cache.data.classification_by_summary) # {}

Pipelines == {"enrich", "classify"}
Blank(text) == text = NoneStr \/ Strip(text) = <<>>
GroupedIds(od) ==
    UNION {{od[j].events[k].event_id : k \in 1..Len(od[j].events)} : j \in 1..Len(od)}

(***************************************************************************)
(* C13: with no API key passed and OPENAI_API_KEY unset, enrich_all_events *)
(* and classify_solo_events raise at once: the run is at its start or has  *)
(* raised ValueError, it has made no resolver and no geocoder call, it has *)
(* not read the cache (its cache locals are unassigned), and no step       *)
(* changes a persisted cache file.                                         *)
(***************************************************************************)
C13_MissingCredential ==
    /\ []((mode \in Pipelines /\ ~api_key) =>
            /\ pc \in {"start", "raised"}
            /\ pc = "raised" => outcome = [error |-> "ValueError", text |-> "OPENAI_API_KEY not set"]
            /\ llm_calls = 0 /\ geo_calls = 0
            /\ llm_cache = EmptyLLMCache /\ loaded_cache = EmptyLLMCache
            /\ places_cache = EmptyDict
            /\ unique_events = <<>> /\ events_for_classification = <<>>)
    /\ [][(mode \in Pipelines /\ ~api_key) =>
            /\ disk_llm_cache' = disk_llm_cache
            /\ disk_places_cache' = disk_places_cache]_vars

\* The location pipeline has raised for want of a key, over an event that has
\* a location, with a cache file it would have had to read.
C13_Witness ==
    /\ mode = "enrich"
    /\ ~api_key
    /\ pc = "raised"
    /\ \E i \in 1..Len(events) : ~Blank(events[i].location_raw)
    /\ disk_llm_cache = MalformedFile

C20_BlankSourceExcluded ==
    \A i \in 1..Len(events) :
        LET e == events[i] IN
        /\ (mode = "enrich" /\ Blank(e.location_raw) /\ NoStray(enrichments)) =>
                /\ \A loc \in DOMAIN seen_locations :
                        \A k \in 1..Len(seen_locations[loc]) : seen_locations[loc][k] # e.id
                /\ \A k \in 1..Len(unique_events) : unique_events[k].event_id # e.id
                /\ e.id \notin DOMAIN enrichment_lookup
                /\ <<>> \notin DOMAIN llm_cache.locations_by_location
        /\ (mode = "classify" /\ Blank(e.summary)) =>
                /\ e.id \notin GroupedIds(summary_to_events)
                /\ \A k \in 1..Len(events_for_classification) :
                        events_for_classification[k].event_id # e.id
                /\ e.id \notin DOMAIN classification_by_id
                /\ <<>> \notin DOMAIN llm_cache.classification_by_summary


(***************************************************************************)
(* Properties of the aggregations (specification SpecAgg).                 *)
(***************************************************************************)
Aggregated == mode = "aggregate" /\ pc \in {"merge", "done"}
\* the names a SOCIAL classification of event i carries, empty strings dropped
SocialNames(i) ==
    LET id == IdTable[i] IN
    IF Has(classification_by_id, id) /\ DictGet(classification_by_id[id], "type") = "SOCIAL"
       /\ Has(classification_by_id[id], "names")
    THEN SelectSeq(classification_by_id[id].names, LAMBDA n : n # <<>>)
    ELSE <<>>
Normalized(name) == Lower(Strip(name))
Naming(key) ==
    {i \in 1..MaxEvents : \E k \in 1..Len(SocialNames(i)) : Normalized(SocialNames(i)[k]) = key}
PersonKeys == {key \in UNION {{Normalized(SocialNames(i)[k]) : k \in 1..Len(SocialNames(i))}
                                 : i \in 1..MaxEvents} : TRUE}
RECURSIVE HoursOver(_)
HoursOver(is) ==
    IF is = {} THEN 0
    ELSE LET i == CHOOSE k \in is : TRUE
         IN  classification_by_id[IdTable[i]].hours + HoursOver(is \ {i})
FirstRawName(key) ==
    LET i == CHOOSE k \in Naming(key) : \A m \in Naming(key) : k <= m
        names == SocialNames(i)
        j == CHOOSE k \in 1..Len(names) :
                /\ Normalized(names[k]) = key
                /\ \A m \in 1..(k - 1) : Normalized(names[m]) # key
    IN  names[j]

(***************************************************************************)
(* C16: _aggregate_inferred_friends returns exactly one InferredFriend per *)
(* distinct normalized (trimmed, lower-cased) person name and no other;    *)
(* its event_count is the number of SOCIAL events that name the person,    *)
(* its total_hours the sum of those events' hours, and its display name    *)
(* the trimmed raw name of the first occurrence.                           *)
(***************************************************************************)
C16_SocialAggregation ==
    Aggregated =>
        /\ \A key \in PersonKeys :
                Cardinality({i \in 1..Len(friends) : friends[i].normalized_name = key}) = 1
        /\ \A i \in 1..Len(friends) :
                LET key == friends[i].normalized_name IN
                /\ key \in PersonKeys
                /\ friends[i].event_count = Cardinality(Naming(key))
                /\ friends[i].total_hours = HoursOver(Naming(key))
                /\ friends[i].name = Strip(FirstRawName(key))


\* suggest_merges has returned
Suggested == mode = "aggregate" /\ pc = "done"
\* the part of an address before its first "@", lower-cased
LocalPart(email) ==
    Lower(IF \E k \in 1..Len(email) : email[k] = "@"
          THEN SubSeq(email, 1, (CHOOSE k \in 1..Len(email) :
                                    email[k] = "@" /\ \A m \in 1..(k - 1) : email[m] # "@") - 1)
          ELSE email)
IsSubstring(p, t) == \E a \in 0..Len(t) : a + Len(p) <= Len(t) /\ SubSeq(t, a + 1, a + Len(p)) = p
\* the (inferred, email friend) pairs in inferred-major, email-minor order
PairOf(n) ==
    [inf |-> friends[((n - 1) \div Len(email_friends)) + 1],
     ef |-> email_friends[((n - 1) % Len(email_friends)) + 1]]
MatchingPairs ==
    SelectSeq([n \in 1..(Len(friends) * Len(email_friends)) |-> PairOf(n)],
              LAMBDA pr : \/ IsSubstring(pr.inf.normalized_name, LocalPart(pr.ef.email))
                          \/ IsSubstring(LocalPart(pr.ef.email), pr.inf.normalized_name))
DisplayHas(pr) ==
    /\ pr.ef.display_name # NoneStr
    /\ IsSubstring(pr.inf.normalized_name, Lower(pr.ef.display_name))
Dan == <<"D","a","n">>
DanielS == <<"D","a","n","i","e","l"," ","S",".">>
DanSmith == <<"D","a","n"," ","S","m","i","t","h">>
DSmith == <<"D","."," ","S","m","i","t","h">>
ConfidenceRule ==
    Len(suggestions) = Len(MatchingPairs)
    /\ \A n \in 1..Len(suggestions) :
           suggestions[n].confidence = IF DisplayHas(MatchingPairs[n]) THEN "high" ELSE "medium"
ConfidenceOfDan(display_name, confidence) ==
    \A n \in 1..Min(Len(suggestions), Len(MatchingPairs)) :
        (/\ MatchingPairs[n].inf.name = Dan
         /\ LocalPart(MatchingPairs[n].ef.email) = <<"d","a","n","i","e","l",".","s","m","i","t","h">>
         /\ MatchingPairs[n].ef.display_name = display_name)
        => suggestions[n].confidence = confidence

(***************************************************************************)
(* C17: for a matching pair suggest_merges reports "high" when the email   *)
(* friend's display name contains the normalized inferred name and         *)
(* "medium" otherwise; for "Dan" and daniel.smith@example.com that is      *)
(* "high" for the display name "Dan Smith" and "medium" for "Daniel S.".   *)
(***************************************************************************)
C17_ConfidenceAsStated ==
    Suggested =>
        /\ ConfidenceRule
        /\ ConfidenceOfDan(DanSmith, "high")
        /\ ConfidenceOfDan(DanielS, "medium")

(***************************************************************************)
(* C17, amended: the confidence is "high" exactly when the display name is *)
(* set and its lower-cased form contains the normalized inferred name, and *)
(* "medium" otherwise.  For "Dan" and daniel.smith@example.com that is     *)
(* "high" for "Dan Smith" and also for "Daniel S." ("daniel s." contains   *)
(* "dan"), and "medium" for "D. Smith" and for a missing display name.     *)
(***************************************************************************)
C17_Confidence ==
    Suggested =>
        /\ ConfidenceRule
        /\ ConfidenceOfDan(DanSmith, "high")
        /\ ConfidenceOfDan(DanielS, "high")
        /\ ConfidenceOfDan(DSmith, "medium")
        /\ ConfidenceOfDan(NoneStr, "medium")

\* "Dan" has been matched against daniel.smith@example.com under the display
\* names "Daniel S." and "D. Smith".
C17_Witness ==
    /\ Suggested
    /\ Len(suggestions) = 2
    /\ \A n \in 1..2 : suggestions[n].inferred_name = Dan
    /\ email_friends[1].display_name = DanielS /\ suggestions[1].confidence = "high"
    /\ email_friends[2].display_name = DSmith /\ suggestions[2].confidence = "medium"

(***************************************************************************)
(* C18: suggest_merges returns exactly one suggestion for every (inferred  *)
(* person, email friend) pair in which the normalized inferred name is a   *)
(* substring of the lower-cased email local part or the local part is a    *)
(* substring of the normalized name, none for any other pair, in           *)
(* inferred-major, email-minor input order.                                *)
(***************************************************************************)
C18_MatchRule ==
    Suggested =>
        /\ Len(suggestions) = Len(MatchingPairs)
        /\ \A n \in 1..Len(suggestions) :
               /\ suggestions[n].inferred_name = MatchingPairs[n].inf.name
               /\ suggestions[n].suggested_email = MatchingPairs[n].ef.email

\* Two inferred people and two email friends: one pair matches by the name
\* inside the local part, one by the local part inside the name, the others
\* do not match.
C18_Witness ==
    /\ Suggested
    /\ Len(friends) = 2 /\ Len(email_friends) = 2
    /\ Len(suggestions) = 2
    /\ \E n \in 1..2 : /\ ~IsSubstring(MatchingPairs[n].inf.normalized_name,
                                         LocalPart(MatchingPairs[n].ef.email))
                        /\ MatchingPairs[n].inf.normalized_name # <<>>
    /\ \E n \in 1..2 : IsSubstring(MatchingPairs[n].inf.normalized_name,
                                     LocalPart(MatchingPairs[n].ef.email))

(***************************************************************************)
(* enrich_and_classify_all: C14, C15.                                      *)
(***************************************************************************)
\* enrich_and_classify_all has returned
Gathered == mode = "gather" /\ pc = "done"

\* the cache file as the next run loads it
Persisted == load_llm_cache(disk_llm_cache)

\* both pipelines asked the model and wrote a record of their own in this run
BothResolvedNewKeys ==
    /\ enrichments # <<>>
    /\ classifications # <<>>
    /\ llm_cache.locations_by_location # EmptyDict
    /\ classify_cache.classification_by_summary # EmptyDict

\* C14: when both pipelines of enrich_and_classify_all resolved new keys, then
\* after both completed the persisted cache file contains every location
\* record the location pipeline wrote and every classification record the
\* classification pipeline wrote, whatever the order of their steps.
C14_NoLostCacheUpdate ==
    (Gathered /\ BothResolvedNewKeys) =>
        /\ \A k \in DOMAIN llm_cache.locations_by_location :
               /\ Has(Persisted.locations_by_location, k)
               /\ Persisted.locations_by_location[k] = llm_cache.locations_by_location[k]
        /\ \A k \in DOMAIN classify_cache.classification_by_summary :
               /\ Has(Persisted.classification_by_summary, k)
               /\ Persisted.classification_by_summary[k]
                      = classify_cache.classification_by_summary[k]

\* cli.py lines 120-131 for the same events, initial cache and responses:
\* enrich_all_events, then classify_solo_events with the lookup it returned
Sequential ==
    LET first == enrich_run(events, load_llm_cache(AbsentFile), enrichments)
        second == classify_run(events, load_llm_cache(save_cache(first.llm_cache)),
                               first.lookup, classifications)
    IN  [enrichment_lookup |-> first.lookup,
         inferred_friends |-> second.friends,
         activity_stats |-> second.activity_stats]

\* C15: for the same events, initial cache and resolver responses,
\* enrich_and_classify_all returns the same enrichment lookup, the same
\* inferred friends and the same activity stats as enrich_all_events followed
\* by classify_solo_events with the resulting lookup.
C15_ParallelEqualsSequential ==
    Gathered => gathered[1] = Sequential

\* the part of C15 about the lookup and the friends alone
ParallelFriendsEqualSequential ==
    Gathered => /\ gathered[1].enrichment_lookup = Sequential.enrichment_lookup
                /\ gathered[1].inferred_friends = Sequential.inferred_friends

(***************************************************************************)
(* The Places lookups of enrich_all_events: C21, C25, C26, C27.            *)
(***************************************************************************)
\* this step is an iteration of `for e in events` over an event with a key
ScansKey(k) ==
    /\ mode = "enrich" /\ pc = "scan" /\ idx <= Len(events)
    /\ idx' = idx + 1
    /\ LocKey(events[idx]) = k
\* the prompt items that stand for key k after this step
LocItemsAfter(k) ==
    {j \in 1..Len(unique_events') : LocKey(EventOf(unique_events'[j].event_id)) = k}
\* this step resolves the map link k through the Places lookup of lines 178-184
BypassResolves(k) ==
    /\ ScansKey(k)
    /\ maps_api_key /\ looks_like_maps_url(k)
    /\ ~DictTruthy(location_cache, k)
    /\ Has(places_cache', k)

\* C21: when a geocoding credential is configured and the Places lookup
\* resolves a map-link key during the scan of enrich_all_events, the key is
\* written to the cache and the prompt list holds no item for the key (the list
\* only grows and is sent as it is), whatever the order of the events sharing
\* the key and whatever earlier lookups for the key returned.
C21_BypassSatisfiesKey ==
    [][\A k \in LocKeys :
          BypassResolves(k) => /\ DictTruthy(llm_cache'.locations_by_location, k)
                               /\ LocItemsAfter(k) = {}]_vars

\* this step tries the Places lookup for the map link k and gets nothing
BypassFails(k) ==
    /\ ScansKey(k)
    /\ maps_api_key /\ looks_like_maps_url(k)
    /\ ~DictTruthy(location_cache, k)
    /\ ~DictTruthy(llm_cache'.locations_by_location, k)

\* C25: when the Places lookup returns nothing for a map-link key, the step
\* writes no record for the key (neither cache nor the lookup changes), the key
\* becomes a target of the second pass like any other uncached key, and the
\* prompt list then holds exactly one item for the key, that of its first-seen
\* event, appended by this step when the event is the first of its key.
C25_FallThrough ==
    [][\A k \in LocKeys :
          BypassFails(k) =>
             /\ llm_cache' = llm_cache
             /\ places_cache' = places_cache
             /\ enrichment_lookup' = enrichment_lookup
             /\ geocode_targets' = geocode_targets \cup {k}
             /\ Cardinality(LocItemsAfter(k)) = 1
             /\ \A j \in LocItemsAfter(k) : unique_events'[j].event_id = FirstLocId(k)
             /\ unique_events' =
                   IF events[idx].id = FirstLocId(k)
                   THEN Append(unique_events,
                               [event_id |-> events[idx].id,
                                summary |-> shorten_text(events[idx].summary),
                                location |-> shorten_location(k)])
                   ELSE unique_events]_vars
\* The Places API was asked once, for the map link of the first event, and found
\* nothing: the event is queued and no record exists.
C25_Witness ==
    /\ mode = "enrich" /\ pc = "scan" /\ idx = 2
    /\ maps_api_key
    /\ looks_like_maps_url(LocKey(events[1]))
    /\ geo_calls = 1
    /\ ~Has(location_cache, LocKey(events[1]))
    /\ ~Has(places_cache, LocKey(events[1]))
    /\ Len(unique_events) = 1
    /\ unique_events[1].event_id = events[1].id

\* this step of the second pass hands key k to the Places lookup: the API is
\* asked, or a record is taken from the places cache and merged
BackfillLooksUp(k) ==
    /\ mode = "enrich" /\ pc = "geocode"
    /\ k \in geo_todo /\ k \notin geo_todo'
    /\ \/ geo_calls' # geo_calls
       \/ llm_cache' # llm_cache
       \/ enrichment_lookup' # enrichment_lookup
\* the text is a URL / names a meeting link, as lines 241-245 test it
IsUrl(k) ==
    \E p \in {<<"h","t","t","p",":","/","/">>, <<"h","t","t","p","s",":","/","/">>} :
       Len(k) >= Len(p) /\ Lower(SubSeq(k, 1, Len(p))) = p
NamesMeetingLink(k) ==
    \E w \in {<<"z","o","o","m">>, <<"g","o","o","g","l","e"," ","m","e","e","t">>,
              <<"m","e","e","t"," ","l","i","n","k">>,
              <<"s","e","e"," ","a","t","t","a","c","h","e","d">>} :
       \E i \in 1..(Len(k) - Len(w) + 1) : Lower(SubSeq(k, i, i + Len(w) - 1)) = w
\* the cache holds no record with both coordinates for the key
LacksCoordinates(k) ==
    \/ ~Has(location_cache, k)
    \/ \E f \in CoordinateFields : location_cache[k][f] = None

BackfillResolves(k) ==
    /\ mode = "enrich" /\ pc = "geocode"
    /\ k \in geo_todo /\ k \notin geo_todo'
    /\ llm_cache' # llm_cache
\* field f of a record went from `before` to `after`: kept when it was
\* populated, and changed only when it was empty
KeptOrFilled(before, after) ==
    /\ Truthy(before) => after = before
    /\ after # before => ~Truthy(before)

RECURSIVE Concat(_)
Concat(lists) == IF lists = <<>> THEN <<>> ELSE Head(lists) \o Concat(Tail(lists))

\* C22: for a list of n >= 1 prompt items and a batch size B >= 1,
\* _call_openai_parallel builds ceil(n/B) batches, each of 1 to B items, whose
\* concatenation in order is the list (so each batch is a contiguous slice and
\* every item is in exactly one batch); for n = 0 it builds no batch, makes no
\* call and returns an empty list.
C22_BatchPartition ==
    (mode = "partition" /\ pc # "call") =>
       LET n == Len(PromptItems)
       IN  IF n = 0
           THEN /\ batches = <<>>
                /\ parallel.state = "returned" /\ parallel.value = <<>>
                /\ \A b \in Batches : calls[b] = 0
           ELSE /\ (Len(batches) - 1) * batch_size < n
                /\ n <= Len(batches) * batch_size
                /\ \A k \in 1..Len(batches) :
                      Len(batches[k]) >= 1 /\ Len(batches[k]) <= batch_size
                /\ Concat(batches) = PromptItems
                /\ parallel.state = "gathering"
\* Four items and a batch size of three: a batch of three and a batch of one.
C22_Witness ==
    /\ mode = "partition" /\ pc = "gather"
    /\ Len(PromptItems) = 4
    /\ batch_size = 3
    /\ Len(batches) = 2
    /\ Len(batches[1]) = 3
    /\ batches[2] = <<PromptItems[4]>>


\* batch b is inside _call_openai_batch: at the gate, in a call, or asleep
\* between two attempts
InLoop(b) == batch_pc[b] \in {"waiting", "calling", "sleeping"}

\* the step writes to the shared cache, to a lookup or to the cache file
WritesShared ==
    \/ llm_cache' # llm_cache
    \/ enrichment_lookup' # enrichment_lookup
    \/ classification_by_id' # classification_by_id
    \/ disk_llm_cache' # disk_llm_cache

(***************************************************************************)
(* C23: single-writer merge.  A step that writes a resolver result to the  *)
(* shared cache or to a lookup is taken while no batch is in its call and  *)
(* retry loop and after _call_openai_parallel has returned; the step of a  *)
(* batch changes no shared structure and no result list but its own.       *)
(***************************************************************************)
C23_SingleWriterMerge ==
    [][mode = "batch" =>
         /\ WritesShared => /\ \A b \in Batches : ~InLoop(b)
                            /\ parallel.state = "returned"
                            /\ batch_pc' = batch_pc
                            /\ batch_result' = batch_result
         /\ batch_pc' # batch_pc => ~WritesShared
         /\ \A b \in Batches :
              batch_result'[b] # batch_result[b] =>
                /\ InLoop(b)
                /\ \A c \in Batches \ {b} : batch_result'[c] = batch_result[c]]_vars

\* the pipeline has merged the records of batches of which one went through a
\* retry
C23_Witness ==
    /\ mode = "batch"
    /\ pc = "done"
    /\ \E b \in Batches : sleeps[b] # <<>>
    /\ \/ llm_cache.locations_by_location # EmptyDict
       \/ llm_cache.classification_by_summary # EmptyDict


\* the results of the batches joined in the order of the batches, whatever the
\* order in which they completed
InBatchOrder == Concat([b \in 1..NumBatches |-> batch_result[b].value])

(***************************************************************************)
(* C24: order independence.  The list returned by _call_openai_parallel is *)
(* the results of its batches joined in batch order, and the cache and the *)
(* lookup the pipeline ends with are those the merge of that list gives:   *)
(* none of them depends on the order in which the batches completed.       *)
(***************************************************************************)
C24_OrderIndependence ==
    (mode = "batch" /\ parallel.state = "returned") =>
        /\ parallel.value = InBatchOrder
        /\ (pc = "done" /\ parse_fn = "location") =>
              \E out \in {enrich_run(events, EmptyLLMCache, InBatchOrder)} :
                 /\ llm_cache = out.llm_cache
                 /\ enrichment_lookup = out.lookup
                 /\ disk_llm_cache = save_cache(out.llm_cache)
        /\ (pc = "done" /\ parse_fn = "classification") =>
              \E out \in {classify_run(events, EmptyLLMCache, EmptyDict, InBatchOrder)} :
                 /\ llm_cache = out.llm_cache
                 /\ classification_by_id = out.classification_by_id
                 /\ disk_llm_cache = save_cache(out.llm_cache)

\* the pipeline has merged the records of two batches of which the second
\* completed first
C24_Witness ==
    /\ mode = "batch"
    /\ pc = "done"
    /\ Len(completed) >= 2 /\ completed[1] = 2 /\ completed[2] = 1
    /\ batch_result[1].value # <<>>
    /\ batch_result[2].value # <<>>
    /\ batch_result[1].value # batch_result[2].value


(***************************************************************************)
(* The aggregations of classify_solo_events: C28, C29, C30                 *)
(***************************************************************************)
\* C28: the list returned by _aggregate_inferred_friends is in non-increasing
\* order of (event_count, total_hours): of two adjacent friends the earlier
\* has the larger event_count, or the same event_count and at least the
\* total_hours of the later.
C28_FriendsSorted ==
    (mode = "aggregate" /\ pc # "aggregate") =>
        \A i \in 1..(Len(friends) - 1) :
            \/ friends[i].event_count > friends[i + 1].event_count
            \/ /\ friends[i].event_count = friends[i + 1].event_count
               /\ friends[i].total_hours >= friends[i + 1].total_hours

\* two friends of one event each: the one met later and longer comes first
C28_Witness ==
    /\ mode = "aggregate"
    /\ pc # "aggregate"
    /\ Len(friends) = 2
    /\ friends[1].event_count = friends[2].event_count
    /\ friends[1].total_hours > friends[2].total_hours
    /\ friends[1].events[1].id = IdTable[2]
    /\ friends[2].events[1].id = IdTable[1]

\* the events classified ACTIVITY under category cat (line 492: "other"
\* when the classification has no category)
ActivityIds(cat) ==
    {id \in DOMAIN classification_by_id :
        /\ DictGet(classification_by_id[id], "type") = "ACTIVITY"
        /\ (IF Has(classification_by_id[id], "category")
            THEN classification_by_id[id].category ELSE "other") = cat}

\* the venue the claim has counted for an ACTIVITY event: the one of its
\* classification when that is not empty, else the one of its enrichment
PrecedentVenue(id) ==
    IF Has(classification_by_id[id], "venue")
       /\ classification_by_id[id].venue \notin {None, ""}
    THEN classification_by_id[id].venue
    ELSE IF Has(enrichment_lookup, id) /\ enrichment_lookup[id].venue_name \notin {None, ""}
    THEN enrichment_lookup[id].venue_name
    ELSE None

\* how often top_venues of category cat counts venue v
VenueCount(cat, v) ==
    LET top == activity_stats[cat].top_venues
    IN  IF \E i \in 1..Len(top) : top[i][1] = v
        THEN top[CHOOSE i \in 1..Len(top) : top[i][1] = v][2]
        ELSE 0

\* C30: venue precedence.  For an ACTIVITY event whose classification has a
\* non-empty venue, that venue is the one counted in the venue frequencies
\* of its category, whatever its location enrichment says; the venue_name
\* of the enrichment is counted only when the classification venue is empty.
C30_VenuePrecedence ==
    (mode = "aggregate" /\ pc # "aggregate") =>
        \A cat \in DOMAIN activity_stats :
            \A v \in {PrecedentVenue(id) : id \in ActivityIds(cat)}
                      \cup {VenueTable[j] : j \in 1..Len(VenueTable)} \cup {"Vital"} :
                v # None =>
                    VenueCount(cat, v) =
                        Cardinality({id \in ActivityIds(cat) : PrecedentVenue(id) = v})

\* an ACTIVITY event with both venues has been counted under the venue of its
\* classification
C30_Witness ==
    /\ mode = "aggregate"
    /\ pc # "aggregate"
    /\ IdTable[1] \in ActivityIds("fitness")
    /\ "fitness" \in DOMAIN activity_stats
    /\ DictGet(classification_by_id[IdTable[1]], "venue") = "Vital"
    /\ Has(enrichment_lookup, IdTable[1])
    /\ enrichment_lookup[IdTable[1]].venue_name = VenueTable[1]
    /\ VenueCount("fitness", "Vital") >= 1
    /\ VenueCount("fitness", VenueTable[1]) = 0


\* the categories of the events classified ACTIVITY
ActivityCategories ==
    {cat \in {"fitness", "wellness", "other"} : ActivityIds(cat) # {}}

\* the activity type counted for an ACTIVITY event (line 493)
TypeOf(id) ==
    IF Has(classification_by_id[id], "activity_type")
    THEN classification_by_id[id].activity_type ELSE "unknown"

\* the hours of the events ids, summed
RECURSIVE HoursOf(_)
HoursOf(ids) ==
    IF ids = {} THEN 0
    ELSE LET id == CHOOSE x \in ids : TRUE
         IN  classification_by_id[id].hours + HoursOf(ids \ {id})

\* the place of an event in the list of events
PositionOf(id) == CHOOSE i \in 1..Len(events) : events[i].id = id

\* `top` lists the values that Val gives the ACTIVITY events of category
\* cat: at most 5 of them and as many as there are up to 5, each with the
\* number of events that have it, none with fewer events than a value left
\* out, by count descending and, for equal counts, in the order in which the
\* values first occur in the list of events
IsTopFive(top, cat, Val(_)) ==
    LET values == {Val(id) : id \in ActivityIds(cat)} \ {None, ""}
        occurrences(v) == {id \in ActivityIds(cat) : Val(id) = v}
        count(v) == Cardinality(occurrences(v))
        first(v) == CHOOSE i \in {PositionOf(id) : id \in occurrences(v)} :
                        \A id \in occurrences(v) : i <= PositionOf(id)
    IN  /\ Len(top) <= 5
        /\ Len(top) = Min(5, Cardinality(values))
        /\ \A i \in 1..Len(top) : top[i][1] \in values /\ top[i][2] = count(top[i][1])
        /\ \A i, j \in 1..Len(top) :
              i < j => /\ top[i][1] # top[j][1]
                       /\ \/ top[i][2] > top[j][2]
                          \/ top[i][2] = top[j][2] /\ first(top[i][1]) < first(top[j][1])
        /\ \A v \in values :
              (\A i \in 1..Len(top) : top[i][1] # v) =>
                 \A i \in 1..Len(top) : top[i][2] >= count(v)

(***************************************************************************)
(* C29: ACTIVITY aggregation.  _aggregate_activity_stats returns one entry *)
(* for each category of an ACTIVITY event; its event_count and total_hours *)
(* are those of the ACTIVITY events of the category; top_venues and        *)
(* top_activities hold at most 5 entries, the values of highest count, by  *)
(* count descending with ties in order of first occurrence.  Events that   *)
(* are OTHER, SOCIAL or not classified are counted nowhere.                *)
(***************************************************************************)
C29_ActivityAggregation ==
    (mode = "activity" /\ pc = "done") =>
        /\ DOMAIN activity_stats = ActivityCategories
        /\ \A cat \in DOMAIN activity_stats :
              /\ activity_stats[cat].category = cat
              /\ activity_stats[cat].event_count = Cardinality(ActivityIds(cat))
              /\ activity_stats[cat].total_hours = HoursOf(ActivityIds(cat))
              /\ IsTopFive(activity_stats[cat].top_venues, cat, PrecedentVenue)
              /\ IsTopFive(activity_stats[cat].top_activities, cat, TypeOf)

\* six activities at six venues and a seventh event, classified OTHER, at the
\* sixth venue: the first five venues are listed with one event each
C29_Witness ==
    /\ mode = "activity"
    /\ pc = "done"
    /\ Len(events) = 7
    /\ Has(classification_by_id, IdTable[7])
    /\ classification_by_id[IdTable[7]].type = "OTHER"
    /\ classification_by_id[IdTable[7]].venue = VenueTable[6]
    /\ DOMAIN activity_stats = {"fitness"}
    /\ activity_stats["fitness"].event_count = 6
    /\ activity_stats["fitness"].top_venues = [i \in 1..5 |-> <<VenueTable[i], 1>>]


(***************************************************************************)
(* The retry loop and the admission gate: C32, C33, C34                    *)
(***************************************************************************)
\* C34: every backoff sleep of a batch is followed by another call of that
\* batch.  A batch that is not asleep (and was admitted and not cancelled) has
\* made one call more than it has slept, and no batch sleeps more than 4
\* times: after the 5th failed attempt the error is raised without a sleep.
C34_SleepThenCall ==
    mode = "batch" =>
        \A b \in Batches :
            /\ Len(sleeps[b]) <= max_retries - 1
            /\ batch_pc[b] \in {"calling", "returned", "raised"} =>
                  calls[b] = Len(sleeps[b]) + 1


\* C33: a batch keeps its admission slot for its whole retry loop, backoff
\* sleeps included.  A waiting batch is admitted only while fewer than C
\* batches are in a call or asleep; the number of free slots grows only in a
\* step in which an admitted batch returns or raises; and after every step
\* the free slots are C less the batches in a call or asleep.
C33_SlotHeldThroughRetries ==
    [][mode = "batch" =>
         /\ \A b \in Batches :
              (batch_pc[b] = "waiting" /\ batch_pc'[b] = "calling") =>
                 Cardinality(InCallPhase) < ceiling
         /\ semaphore' > semaphore =>
              \E b \in InCallPhase : batch_pc'[b] \in {"returned", "raised"}
         /\ semaphore' = ceiling' - Cardinality({b \in Batches :
                                          batch_pc'[b] \in {"calling", "sleeping"}})]_vars

\* under a ceiling of one, the second batch is in its call after the first
\* batch, which slept between two attempts, has ended
C33_Witness ==
    /\ mode = "batch"
    /\ ceiling = 1
    /\ batch_pc[1] \in {"returned", "raised"}
    /\ Len(sleeps[1]) >= 2
    /\ batch_pc[2] = "calling"
    /\ semaphore = 0


\* every batch has left _call_openai_batch and the pipeline has ended
BatchesEnded ==
    /\ \A b \in Batches : batch_pc[b] \in {"returned", "raised", "cancelled"}
    /\ parallel.state \in {"returned", "raised"}
    /\ pc \in {"done", "raised"}

EnrichmentMerged ==
    /\ task_pc.enrich = "done"
    /\ \A i \in 1..Len(enrichments) :
          (\E j \in 1..Len(unique_events) :
                unique_events[j].event_id = enrichments[i].event_id) =>
              /\ Has(enrichment_lookup, enrichments[i].event_id)
              /\ DictTruthy(Persisted.locations_by_location,
                            LocKey(EventOf(enrichments[i].event_id)))
\* the classification pipeline has merged and persisted what its call returned
ClassificationMerged ==
    /\ task_pc.classify = "done"
    /\ \A j \in 1..Len(classifications) :
          /\ Has(classification_by_id, classifications[j].event_id)
          /\ DictTruthy(Persisted.classification_by_summary,
                        SumKey(EventOf(classifications[j].event_id)))

C35_LookupDomain ==
    (mode = "enrich" /\ pc = "done" /\ outcome = Returned) =>
        \A id \in DOMAIN enrichment_lookup :
            /\ \E i \in 1..Len(events) : events[i].id = id /\ LocKey(events[i]) # <<>>
            /\ enrichment_lookup[id].event_id = id


\* a run of either pipeline has returned
RunReturned == mode \in {"enrich", "classify"} /\ pc = "done" /\ outcome = Returned

\* C36: whatever ids the resolver returns, a run that returns leaves the cache
\* record, and the lookup or classification entries, of every key that was a
\* cache hit at load as they were loaded; where a geocoding credential allows
\* the second pass to fill a record in, the fields that were filled at load
\* are as loaded.
C36_CacheHitsUntouched ==
    RunReturned =>
        /\ mode = "enrich" =>
              \A k \in LocKeys :
                 DictTruthy(loaded_cache.locations_by_location, k) =>
                    LET was == loaded_cache.locations_by_location[k]
                        now == llm_cache.locations_by_location[k]
                    IN  /\ ~maps_api_key => now = was
                        /\ \A f \in DescriptiveFields : Truthy(was[f]) => now[f] = was[f]
                        /\ \A i \in 1..Len(events) :
                              LocKey(events[i]) = k =>
                                 /\ Has(enrichment_lookup, events[i].id)
                                 /\ ~maps_api_key =>
                                       enrichment_lookup[events[i].id]
                                          = location_enrichment_from_cache(events[i].id, was)
                                 /\ \A f \in DescriptiveFields :
                                       Truthy(was[f]) =>
                                          enrichment_lookup[events[i].id][f] = was[f]
        /\ mode = "classify" =>
              \A k \in SumKeys :
                 DictTruthy(loaded_cache.classification_by_summary, k) =>
                    LET was == loaded_cache.classification_by_summary[k]
                    IN  /\ llm_cache.classification_by_summary[k] = was
                        /\ \A i \in 1..Len(events) :
                              SumKey(events[i]) = k =>
                                 /\ Has(classification_by_id, events[i].id)
                                 /\ classification_by_id[events[i].id]
                                       = ClassificationEntry(events[i].id, was,
                                                             EventPayload(events[i]))


\* C37: when enrich_all_events returns, for every event that has a lookup
\* entry and whose key has a cache record, the entry's venue_name,
\* neighborhood, city, cuisine, latitude and longitude equal those of the
\* cache record of the event's key as persisted by that run (here with a
\* resolver that answered only what it was asked).
C37_LookupAgreesWithCache ==
    (RunReturned /\ mode = "enrich" /\ NoStray(enrichments)) =>
        \A i \in 1..Len(events) :
            (/\ Has(enrichment_lookup, events[i].id)
             /\ LocKey(events[i]) # <<>>
             /\ Has(Persisted.locations_by_location, LocKey(events[i]))) =>
                \A f \in DescriptiveFields \cup CoordinateFields :
                    enrichment_lookup[events[i].id][f]
                       = DictGet(Persisted.locations_by_location[LocKey(events[i])], f)


\* C38: in every run of classify_solo_events, whatever the cache holds (an
\* empty cached record included), every event with a non-empty summary key has
\* a classification entry or has its key represented by a prompt item sent to
\* the resolver.
C38_ClassificationCoverage ==
    (RunReturned /\ mode = "classify") =>
        \A i \in 1..Len(events) :
            SumKey(events[i]) # <<>> =>
                \/ Has(classification_by_id, events[i].id)
                \/ \E j \in 1..Len(events_for_classification) :
                      SumKey(EventOf(events_for_classification[j].event_id))
                         = SumKey(events[i])


\* no result carries the id of an event with key k
Unanswered(k, results, KeyOf(_)) ==
    \A m \in 1..Len(results) :
        \A i \in 1..Len(events) : events[i].id = results[m].event_id => KeyOf(events[i]) # k
\* the key has an item in the list handed to the resolver
SentKey(items, k, KeyOf(_)) ==
    \E j \in 1..Len(items) : KeyOf(EventOf(items[j].event_id)) = k

(***************************************************************************)
(* C39: when the resolver returns no result item for a sent key and no     *)
(* geocoder resolves that key, the run that returns has written no cache   *)
(* record for the key; and in the second run over the same events every    *)
(* key without a record in the cache as loaded, and not resolved by a      *)
(* geocoder, is in the list sent to the resolver.                          *)
(***************************************************************************)
C39_NegativeResultsNotCached ==
    /\ (RunReturned /\ mode = "enrich") =>
          /\ \A k \in LocKeys :
                (/\ SentKey(unique_events, k, LocKey)
                 /\ Unanswered(k, enrichments, LocKey)
                 /\ ~Has(places_cache, k)) =>
                    /\ ~Has(llm_cache.locations_by_location, k)
                    /\ ~Has(Persisted.locations_by_location, k)
          /\ run = 2 =>
                \A k \in LocKeys :
                    (~Has(loaded_cache.locations_by_location, k) /\ ~Has(places_cache, k)) =>
                        SentKey(unique_events, k, LocKey)
    /\ (RunReturned /\ mode = "classify") =>
          /\ \A k \in SumKeys :
                (/\ SentKey(events_for_classification, k, SumKey)
                 /\ Unanswered(k, classifications, SumKey)) =>
                    /\ ~Has(llm_cache.classification_by_summary, k)
                    /\ ~Has(Persisted.classification_by_summary, k)
          /\ run = 2 =>
                \A k \in SumKeys :
                    ~Has(loaded_cache.classification_by_summary, k) =>
                        SentKey(events_for_classification, k, SumKey)

\* the second run of enrich_all_events has returned: a key that the first run
\* had sent without getting a result was not in the cache as loaded and was
\* sent again; this time it was answered and cached, while another key was
\* sent and left unanswered
C39_Witness ==
    /\ RunReturned /\ mode = "enrich" /\ run = 2
    /\ ~maps_api_key
    /\ \E k \in LocKeys :
          /\ ~Has(loaded_cache.locations_by_location, k)
          /\ \A i \in 1..Len(events) : LocKey(events[i]) = k => ~Has(first_lookup, events[i].id)
          /\ SentKey(unique_events, k, LocKey)
          /\ Has(llm_cache.locations_by_location, k)
    /\ \E k \in LocKeys :
          /\ SentKey(unique_events, k, LocKey)
          /\ Unanswered(k, enrichments, LocKey)
          /\ ~Has(Persisted.locations_by_location, k)

=============================================================================
